---- MODULE Spec2Model ----
(***************************************************************************)
(* Knowledge-base ingestion, re-ingestion, embedding regeneration,         *)
(* metadata update and deletion of backend/app/routers/knowledge_base.py,  *)
(* with the AI gateway of backend/app/services/ai_service.py.              *)
(*                                                                         *)
(* A text is a sequence of tokens (words / whitespace runs).  The          *)
(* committed database is kbs (knowledge_bases rows) and embs               *)
(* (knowledge_embeddings rows); blobs is the uploads/knowledge directory.  *)
(* Every request runs in a slot with its own database session; a handler   *)
(* is cut into steps at its suspension points (await) and at its blocking  *)
(* database statements.  The row columns that only echo the request        *)
(* (original_filename, created_by_id, updated_by_id, the timestamps) are   *)
(* left out.                                                               *)
(***************************************************************************)
EXTENDS Integers, Sequences, FiniteSets, TLC

\* ------------------------------------------------------------------ bounds
MaxKb == 1      \* knowledge_bases ids ever handed out
MaxKey == 1     \* uuid4 storage keys ever generated
MaxRows == 3    \* entries of the searched knowledge base
MaxLimit == 3   \* the limit of a search
MaxBatch == 2   \* texts of one batch

Slots == {1, 2}

\* --------------------------------------------------------- program constants
max_content_length == 30000
max_embed_length == 8000

\* Settings.EMBEDDING_DIMENSIONS, its default
EMBEDDING_DIMENSIONS == 1024

\* KnowledgeEmbedding.embedding = Column(Vector(1024)): the column takes
\* vectors of this many components only
EMBEDDING_COLUMN_DIMENSIONS == 1024

ALLOWED_EXTENSIONS == {".txt", ".md", ".pdf"}

VALID_DOMAINS ==
  {"backend", "frontend", "database", "devops", "api", "mobile",
   "infrastructure", "ai", "general"}

KB_ADMIN_ROLES == {"admin"}

ADMIN_EMAILS == {"ops@x"}

\* ------------------------------------------------------------------- inputs
None == "None"
NoKey == 0

Whitespace == {" ", "\n"}

\* uploaded files: the name, the decoded text, and for a PDF whether pypdf
\* reads it ("ok"), raises on it ("bad") or is not installed ("nolib")
Files ==
  {[filename |-> "a.txt", data |-> <<"alpha">>, pdf |-> "ok"],
   [filename |-> "a.txt", data |-> << >>, pdf |-> "ok"],
   [filename |-> "b.MD", data |-> <<"#", "beta">>, pdf |-> "ok"],
   [filename |-> "b.MD", data |-> <<" ", "\n">>, pdf |-> "ok"],
   [filename |-> "c.pdf", data |-> <<"alpha">>, pdf |-> "ok"],
   [filename |-> "c.pdf", data |-> <<"alpha">>, pdf |-> "bad"],
   [filename |-> "c.pdf", data |-> <<"alpha">>, pdf |-> "nolib"],
   [filename |-> "d.exe", data |-> <<"alpha">>, pdf |-> "ok"]}

Users ==
  {[id |-> 1, email |-> "root@x", role |-> "admin"],
   [id |-> 2, email |-> "Ops@x", role |-> "developer"],
   [id |-> 3, email |-> "dev@x", role |-> "developer"]}

Providers == {"openai", "genai", "none"}

\* what one call of the chat backend does: answers, raises, or answers with
\* a message whose content is null
TextOutcomes == {"ok", "raise", "null"}

\* what one call of the embedding backend does
EmbedOutcomes == {"ok", "raise"}

\* what one write to the database (commit) or to the blob directory does
IoOutcomes == {"ok", "fail"}

Updates ==
  {[name |-> None, domain |-> "frontend", description |-> "d2"],
   [name |-> "n2", domain |-> None, description |-> None]}

\* the update of the requests that are mixed with ingestion
PlainUpdates == {update \in Updates : update.name = None}

\* ------------------------------------------------------------ pure helpers
StartsWith(s, p) == Len(s) >= Len(p) /\ SubSeq(s, 1, Len(p)) = p

\* str.strip() is empty
IsBlank(content) == \A i \in 1..Len(content) : content[i] \in Whitespace

\* os.path.splitext(file.filename)[1].lower()
ExtOf(filename) ==
  CASE filename = "a.txt" -> ".txt"
    [] filename = "b.MD" -> ".md"
    [] filename = "c.pdf" -> ".pdf"
    [] OTHER -> ".exe"

\* email.lower()
Lower(email) == IF email = "Ops@x" THEN "ops@x" ELSE email

check_permission(user, action) ==
  IF action = "manage_users" THEN user.role \in KB_ADMIN_ROLES ELSE FALSE

is_admin_email(email) == Lower(email) \in ADMIN_EMAILS

\* is_kb_admin that takes a developer for an admin
is_kb_admin_or_developer(user) ==
  user.role \in {"admin", "developer"} \/ is_admin_email(user.email)

is_kb_admin(user) ==
  check_permission(user, "manage_users") \/ is_admin_email(user.email)

\* extract_content_from_file: <<status, text>>; status 0 is success
extract_content_from_file(file) ==
  LET ext == ExtOf(file.filename)
  IN IF ext \in {".txt", ".md"} THEN <<0, file.data>>
     ELSE IF ext = ".pdf"
       THEN CASE file.pdf = "ok" -> <<0, file.data>>
              [] file.pdf = "nolib" -> <<500, << >> >>
              [] OTHER -> <<400, << >> >>
       ELSE <<400, << >> >>

\* ------------------------------------------------------------ text values
\* Python's None where a text is expected
PyNone == <<"<None>">>

HeaderTokens == {"#", "##", "## Additional Content"}

desc_limit == 200

Min(a, b) == IF a < b THEN a ELSE b

\* s[:n]
Prefix(s, n) == SubSeq(s, 1, Min(Len(s), n))

\* s[n:]
Suffix(s, n) == SubSeq(s, n + 1, Len(s))

\* FORMAT_TO_MARKDOWN_PROMPT.format(content=format_content)
FORMAT_TO_MARKDOWN_PROMPT(format_content) ==
  <<"Convert the following text">> \o format_content \o <<"OUTPUT:">>

\* what the chat backend answers to the formatting prompt when it answers
ChatReply(prompt) ==
  <<"#", "Formatted", "\n">> \o SubSeq(prompt, 2, Len(prompt) - 1)

\* ------------------------------------------------------------- AI gateway
\* AIService._detect_provider: a key counts when it is set and not blank
\* _detect_provider that takes a key of whitespace for a key
detect_provider_unstripped(openai_key, genai_key) ==
  LET has_openai == openai_key # PyNone /\ openai_key # << >>
      has_genai == genai_key # PyNone /\ genai_key # << >>
  IN IF has_openai THEN "openai"
     ELSE IF has_genai THEN "genai"
     ELSE "none"

detect_provider(openai_key, genai_key) ==
  LET has_openai == openai_key # PyNone /\ ~IsBlank(openai_key)
      has_genai == genai_key # PyNone /\ ~IsBlank(genai_key)
  IN IF has_openai /\ has_genai THEN "openai"
     ELSE IF has_openai THEN "openai"
     ELSE IF has_genai THEN "genai"
     ELSE "none"

ApiKeys == {PyNone, << >>, <<" ">>, <<"sk-1">>}

\* AIService.OPENAI_MODELS / GENAI_MODELS
OPENAI_MODELS ==
  [low |-> "gpt-3.5-turbo", medium |-> "gpt-4", high |-> "gpt-4-turbo"]

GENAI_MODELS ==
  [low |-> "gemini-1.5-flash", medium |-> "gemini-1.5-pro",
   high |-> "gemini-1.5-pro"]

\* Settings as declared: the keys unset, the model names and the dimension
\* at their defaults
DefaultSettings ==
  [OPENAI_API_KEY |-> PyNone, GENAI_API_KEY |-> PyNone,
   OPENAI_MODEL_LOW |-> "gpt-3.5-turbo", OPENAI_MODEL_MEDIUM |-> "gpt-4",
   OPENAI_MODEL_HIGH |-> "gpt-4-turbo",
   EMBEDDING_DIMENSIONS |-> EMBEDDING_DIMENSIONS]

\* the default settings with one configuration of the keys per provider
PlainSettings ==
  {[DefaultSettings EXCEPT !.OPENAI_API_KEY = <<"sk-1">>,
                           !.GENAI_API_KEY = <<"sk-1">>],
   [DefaultSettings EXCEPT !.OPENAI_API_KEY = <<" ">>,
                           !.GENAI_API_KEY = <<"sk-1">>],
   [DefaultSettings EXCEPT !.GENAI_API_KEY = << >>]}

\* AIService.__init__: the provider the gateway is constructed with
AIService(cfg) == detect_provider(cfg.OPENAI_API_KEY, cfg.GENAI_API_KEY)

\* the outcomes a chat call can have under a provider
\* the complexity hints callers pass
Complexities == {"low", "medium", "high", "HIGH", "", "max"}

\* _get_model that reads the built-in tables only
get_model_builtin(prov, cfg, complexity) ==
  LET level == IF complexity \in {"low", "medium", "high"}
                 THEN complexity ELSE "low"
  IN IF prov = "openai" THEN OPENAI_MODELS[level] ELSE GENAI_MODELS[level]

\* AIService._get_model
get_model(prov, cfg, complexity) ==
  LET level == IF complexity \in {"low", "medium", "high"}
                 THEN complexity ELSE "low"
  IN IF prov = "openai"
       THEN IF level = "low" /\ cfg.OPENAI_MODEL_LOW # ""
              THEN cfg.OPENAI_MODEL_LOW
            ELSE IF level = "medium" /\ cfg.OPENAI_MODEL_MEDIUM # ""
              THEN cfg.OPENAI_MODEL_MEDIUM
            ELSE IF level = "high" /\ cfg.OPENAI_MODEL_HIGH # ""
              THEN cfg.OPENAI_MODEL_HIGH
            ELSE OPENAI_MODELS[level]
       ELSE GENAI_MODELS[level]

\* the configurations a deployment is started with: every pair of keys, the
\* OpenAI model names set, emptied or left alone one level at a time under
\* either backend, and another embedding dimension
GatewaySettings ==
  {[DefaultSettings EXCEPT !.OPENAI_API_KEY = a, !.GENAI_API_KEY = b] :
     a \in ApiKeys, b \in ApiKeys}
  \cup UNION {
     {[DefaultSettings EXCEPT !.OPENAI_API_KEY = k[1], !.GENAI_API_KEY = k[2],
                              !.OPENAI_MODEL_LOW = name],
      [DefaultSettings EXCEPT !.OPENAI_API_KEY = k[1], !.GENAI_API_KEY = k[2],
                              !.OPENAI_MODEL_MEDIUM = name],
      [DefaultSettings EXCEPT !.OPENAI_API_KEY = k[1], !.GENAI_API_KEY = k[2],
                              !.OPENAI_MODEL_HIGH = name]} :
       k \in {<<<<"sk-1">>, PyNone>>, <<PyNone, <<"sk-1">>>>},
       name \in {"", "gpt-4o"}}
  \cup {[DefaultSettings EXCEPT !.OPENAI_API_KEY = <<"sk-1">>,
                                !.EMBEDDING_DIMENSIONS = 512],
        [DefaultSettings EXCEPT !.GENAI_API_KEY = <<"sk-1">>,
                                !.EMBEDDING_DIMENSIONS = 512]}

GenOutcomes(prov) == IF prov = "none" THEN {"nokey"} ELSE TextOutcomes

\* what a caller gets when a call ends by an exception instead of a value
Raised == <<"<raised>">>

\* generate_text without its try/except
generate_text_unguarded(prov, prompt, outcome) ==
  IF prov = "none" THEN <<"Error:", "No AI API key configured">>
  ELSE IF prov \in {"openai", "genai"}
    THEN CASE outcome = "ok" -> ChatReply(prompt)
           [] outcome = "null" /\ prov = "openai" -> PyNone
           [] OTHER -> Raised
  ELSE <<"Error:", "Invalid AI Provider configuration.">>

\* AIService.generate_text
generate_text(prov, prompt, outcome) ==
  IF prov = "none" THEN <<"Error:", "No AI API key configured">>
  ELSE IF prov = "openai"
    THEN CASE outcome = "ok" -> ChatReply(prompt)
           [] outcome = "null" -> PyNone
           [] OTHER -> <<"OpenAI", "Error:", "boom">>
  ELSE IF prov = "genai"
    THEN CASE outcome = "ok" -> ChatReply(prompt)
           [] OTHER -> <<"GenAI", "Error:", "boom">>
  ELSE <<"Error:", "Invalid AI Provider configuration.">>

\* the vector of n components the embedding backend computes for a text
VectorDim(text, n) == <<"vec", n>> \o text

\* len(embedding)
Components(embedding) == embedding[2]

\* the vector computed under the default settings
Vector(text) == VectorDim(text, EMBEDDING_DIMENSIONS)

\* the outcomes an embedding call can have under a provider
EmbOutcomes(prov) == IF prov = "none" THEN {"nokey"} ELSE EmbedOutcomes

\* AIService.generate_embedding: a vector, or None on any failure
generate_embedding(prov, text, dimensions, outcome) ==
  IF prov = "none" THEN PyNone
  ELSE IF prov \in {"openai", "genai"}
    THEN IF outcome = "ok" THEN VectorDim(text, dimensions) ELSE PyNone
  ELSE PyNone

\* ----------------------------------------------------------- normalisation
\* the test that sends every file to the formatter
needs_formatting_always(ext) == TRUE

\* if ext in [".txt", ".pdf"]: of upload and of reprocess
needs_formatting(ext) == ext \in {".txt", ".pdf"}

\* upload_normalize that stores the formatted head alone
upload_normalize_head_only(ext, content, prov, outcome) ==
  IF ext \in {".txt", ".pdf"}
    THEN LET format_content ==
               IF Len(content) > max_content_length
                 THEN Prefix(content, max_content_length) ELSE content
             prompt == FORMAT_TO_MARKDOWN_PROMPT(format_content)
             markdown_content == generate_text(prov, prompt, outcome)
         IN IF markdown_content = PyNone THEN content
            ELSE IF StartsWith(markdown_content, <<"Error:">>) THEN content
            ELSE markdown_content
    ELSE content

\* upload_knowledge_base, "For TXT and PDF files, format to markdown"
upload_normalize(ext, content, prov, outcome) ==
  IF ext \in {".txt", ".pdf"}
    THEN LET format_content ==
               IF Len(content) > max_content_length
                 THEN Prefix(content, max_content_length) ELSE content
             prompt == FORMAT_TO_MARKDOWN_PROMPT(format_content)
             markdown_content == generate_text(prov, prompt, outcome)
         IN IF markdown_content = PyNone THEN content
            ELSE IF StartsWith(markdown_content, <<"Error:">>) THEN content
            ELSE IF Len(content) > max_content_length
              THEN markdown_content \o <<"\n", "---", "\n", "## Additional Content", "\n">>
                     \o Suffix(content, max_content_length)
            ELSE markdown_content
    ELSE content

\* reprocess_knowledge_base, "For TXT and PDF files, format to markdown"
reprocess_normalize(ext, content, prov, outcome) ==
  IF ext \in {".txt", ".pdf"}
    THEN LET format_content ==
               IF Len(content) > max_content_length
                 THEN Prefix(content, max_content_length) ELSE content
             prompt == FORMAT_TO_MARKDOWN_PROMPT(format_content)
             markdown_content == generate_text(prov, prompt, outcome)
         IN IF markdown_content = PyNone THEN content
            ELSE IF StartsWith(markdown_content, <<"Error:">>) THEN content
            ELSE IF Len(content) > max_content_length
              THEN markdown_content \o <<"\n", "---", "\n", "## Additional Content", "\n">>
                     \o Suffix(content, max_content_length)
            ELSE markdown_content
    ELSE content

\* the lines of a text: the runs of tokens between "\n" tokens
RECURSIVE SplitLines(_)
SplitLines(s) ==
  IF \A i \in 1..Len(s) : s[i] # "\n" THEN <<s>>
  ELSE LET k == CHOOSE i \in 1..Len(s) :
                  s[i] = "\n" /\ \A j \in 1..(i - 1) : s[j] # "\n"
       IN <<SubSeq(s, 1, k - 1)>> \o SplitLines(SubSeq(s, k + 1, Len(s)))

\* line.strip()
RECURSIVE Strip(_)
Strip(s) ==
  IF s = << >> THEN s
  ELSE IF s[1] \in Whitespace THEN Strip(Tail(s))
  ELSE IF s[Len(s)] \in Whitespace THEN Strip(SubSeq(s, 1, Len(s) - 1))
  ELSE s

\* upload_knowledge_base, "Extract description from first meaningful line"
auto_description(description, markdown_content) ==
  IF description # PyNone /\ description # << >> THEN description
  ELSE LET lines == SplitLines(Strip(markdown_content))
           good == {i \in 1..Len(lines) :
                      Strip(lines[i]) # << >> /\ Strip(lines[i])[1] \notin HeaderTokens}
       IN IF good = {} THEN description
          ELSE LET i == CHOOSE k \in good : \A j \in good : k <= j
               IN Prefix(Strip(lines[i]), desc_limit)

\* -------------------------------------------------------------------- state
VARIABLES
  users,      \* committed users rows, by id
  provider,   \* ai_service.available_provider, fixed at construction
  settings,   \* core.config.settings, as the process was started
  kbs,        \* committed knowledge_bases rows, by id
  embs,       \* committed knowledge_embeddings rows
  blobs,      \* files of uploads/knowledge, by storage key
  nextId,     \* next knowledge_bases id
  nextKey,    \* next fresh uuid4 storage key
  req,        \* the request running in each slot
  pendDel     \* per session: embedding rows deleted but not yet committed

vars == <<users, provider, settings, kbs, embs, blobs, nextId, nextKey, req, pendDel>>

\* the users table before any request: the registered accounts
UserRows ==
  [id \in {u.id : u \in Users} |->
     LET u == CHOOSE v \in Users : v.id = id
     IN [email |-> u.email, role |-> u.role]]

NoFile == [filename |-> "", data |-> << >>, pdf |-> "ok"]
NoForm == [name |-> None, domain |-> None, description |-> PyNone]
NoResp == [id |-> 0, version |-> 0, count |-> 0]
NoRow ==
  [name |-> None, domain |-> None, description |-> PyNone,
   json_filename |-> NoKey, markdown_filename |-> NoKey, version |-> 0]

Idle ==
  [op |-> "none", pc |-> "idle", user |-> 0, id |-> 0, file |-> NoFile,
   form |-> NoForm, content |-> << >>, gen |-> "na", md |-> << >>,
   key |-> NoKey, row |-> NoRow, snap |-> {}, emb |-> "na",
   status |-> 0, resp |-> NoResp]

\* the request ends: the response goes out and the request-scoped session is
\* closed, which discards whatever it has not committed.  What stays of the
\* request is its answer, the outcome of its embedding step, the file when
\* the request was turned down before its first step, and the row a delete
\* removed
Done(r, status, resp) ==
  [Idle EXCEPT !.op = r.op, !.user = r.user, !.id = r.id,
               !.file = IF r.pc = "idle" THEN r.file ELSE NoFile,
               !.row = IF r.op = "delete" THEN r.row ELSE NoRow,
               !.emb = r.emb,
               !.pc = "done", !.status = status, !.resp = resp]

\* an entry ingested by the earlier, structure-based version: it carries a
\* JSON structure file, and the migration to 1024 dimensions deleted its
\* embeddings
LegacyKey == MaxKey + 1
LegacyJsonKey == MaxKey + 2

LegacyRow ==
  [name |-> "n0", domain |-> "backend", description |-> <<"legacy">>,
   json_filename |-> LegacyJsonKey, markdown_filename |-> LegacyKey,
   version |-> 1]

Blob(text) == [text |-> text, complete |-> TRUE]

Init ==
  /\ settings \in PlainSettings
  /\ provider = AIService(settings)
  /\ \/ /\ kbs = << >>
        /\ blobs = << >>
        /\ nextId = 1
     \/ /\ kbs = (1 :> LegacyRow)
        /\ blobs = (LegacyKey :> Blob(<<"#", "legacy">>)) @@
                   (LegacyJsonKey :> Blob(<<"{json}">>))
        /\ nextId = 2
  /\ embs = {}
  /\ nextKey = 1
  /\ req = [s \in Slots |-> Idle]
  /\ pendDel = [s \in Slots |-> {}]
  /\ users = UserRows

\* a slot is free for a new request
Free(s) == req[s].pc = "idle"

\* requests one at a time: a request begins when no other is in flight
Quiet == \A t \in Slots : Free(t)

UserOf(uid) == CHOOSE u \in Users : u.id = uid

\* os.path.exists / os.remove on the knowledge directory
Exists(key) == key \in DOMAIN blobs
Remove(bs, key) == [k \in DOMAIN bs \ {key} |-> bs[k]]

EmbRows(id) == {e \in embs : e.kb_id = id}

\* --------------------------------------------------------------- upload
UploadForms ==
  {[name |-> "n1", domain |-> "general", description |-> PyNone],
   [name |-> "n1", domain |-> "bogus", description |-> <<"d1">>]}

\* the requests drawn: every user with the plain request, and the first
\* admin with every file and every form
User0 == CHOOSE u \in Users : u.id = 1
File0 == CHOOSE f \in Files : f.filename = "a.txt" /\ f.data = <<"alpha">>
Form0 == CHOOSE f \in UploadForms : f.domain = "general"

UploadInputs ==
  {i \in [user : Users, file : Files, form : UploadForms] :
     \/ i.file = File0 /\ i.form = Form0
     \/ i.user = User0 /\ i.form = Form0
     \/ i.user = User0 /\ i.file = File0}

ReprocessInputs ==
  {i \in [user : Users, file : Files] : i.file = File0 \/ i.user = User0}

\* upload_validate without the empty-content check
upload_validate_noblank(user, file) ==
  LET ext == ExtOf(file.filename)
      ex == extract_content_from_file(file)
  IN IF ~is_kb_admin(user) THEN 403
     ELSE IF ext \notin ALLOWED_EXTENSIONS THEN 400
     ELSE IF ex[1] # 0 THEN ex[1]
     ELSE 0

\* upload_knowledge_base up to the empty-content check: the status it raises,
\* 0 when it goes on
upload_validate(user, file) ==
  LET ext == ExtOf(file.filename)
      ex == extract_content_from_file(file)
  IN IF ~is_kb_admin(user) THEN 403
     ELSE IF ext \notin ALLOWED_EXTENSIONS THEN 400
     ELSE IF ex[1] # 0 THEN ex[1]
     ELSE IF IsBlank(ex[2]) THEN 400
     ELSE 0

UploadStart(s, inputs) ==
  /\ Free(s)
  /\ nextKey <= MaxKey
  /\ nextId <= MaxKb
  /\ \E i \in inputs :
       LET user == i.user
           file == i.file
           r == [Idle EXCEPT !.op = "upload", !.user = user.id,
                             !.file = file, !.form = i.form]
           st == upload_validate(user, file)
           content == extract_content_from_file(file)[2]
       IN req' = [req EXCEPT ![s] =
            IF st # 0 THEN Done(r, st, NoResp)
            ELSE IF needs_formatting(ExtOf(file.filename))
              THEN [r EXCEPT !.content = content, !.pc = "up_format"]
            ELSE [r EXCEPT !.content = content, !.md = content,
                           !.pc = "up_write"]]
  /\ UNCHANGED <<users, provider, settings, kbs, embs, blobs, nextId, nextKey, pendDel>>

UploadFormat(s) ==
  /\ req[s].pc = "up_format"
  /\ \E outcome \in GenOutcomes(provider) :
       LET r == req[s]
       IN req' = [req EXCEPT ![s] =
            [r EXCEPT !.gen = outcome,
                      !.md = upload_normalize(ExtOf(r.file.filename), r.content,
                                              provider, outcome),
                      !.pc = "up_write"]]
  /\ UNCHANGED <<users, provider, settings, kbs, embs, blobs, nextId, nextKey, pendDel>>

\* aiofiles.open(path, 'w') then write: done, or the open fails, or the write
\* fails and leaves a proper prefix (here: the empty one)
WriteOutcomes(text) ==
  {[ok |-> TRUE, made |-> TRUE, blob |-> Blob(text)],
   [ok |-> FALSE, made |-> FALSE, blob |-> Blob(text)],
   [ok |-> FALSE, made |-> TRUE, blob |-> [text |-> << >>, complete |-> FALSE]]}

UploadWrite(s) ==
  /\ req[s].pc = "up_write"
  /\ nextKey <= MaxKey
  /\ \E w \in WriteOutcomes(req[s].md) :
       /\ blobs' = IF w.made THEN (nextKey :> w.blob) @@ blobs ELSE blobs
       /\ req' = [req EXCEPT ![s] =
            IF w.ok THEN [@ EXCEPT !.key = nextKey, !.pc = "up_commit"]
            ELSE Done([@ EXCEPT !.key = nextKey], 500, NoResp)]
  /\ nextKey' = nextKey + 1
  /\ UNCHANGED <<users, provider, settings, kbs, embs, nextId, pendDel>>

\* models.KnowledgeBase(...) of upload_knowledge_base; version takes the
\* column default
new_row(form, description, markdown_filename) ==
  [name |-> form.name, domain |-> form.domain, description |-> description,
   json_filename |-> NoKey, markdown_filename |-> markdown_filename,
   version |-> 1]

UploadCommit(s) ==
  /\ req[s].pc = "up_commit"
  /\ nextId <= MaxKb
  /\ LET r == req[s]
         row == new_row(r.form, auto_description(r.form.description, r.md),
                        r.key)
     IN \E c \in IoOutcomes :
          IF c = "ok"
            THEN /\ kbs' = (nextId :> row) @@ kbs
                 /\ req' = [req EXCEPT ![s] =
                      [r EXCEPT !.id = nextId, !.row = row, !.pc = "emb_del"]]
            ELSE /\ kbs' = kbs
                 /\ req' = [req EXCEPT ![s] = Done(r, 500, NoResp)]
  /\ nextId' = nextId + 1
  /\ UNCHANGED <<users, provider, settings, embs, blobs, nextKey, pendDel>>

\* ------------------------------------------ embedding generation and storage
\* another session holds the row lock of an uncommitted delete of one of rows
Locked(s, rows) == \E t \in Slots \ {s} : pendDel[t] \cap rows # {}

\* EmbDelete with the DELETE statement left out
EmbDeleteSkipped(s) ==
  /\ req[s].pc = "emb_del"
  /\ req' = [req EXCEPT ![s] = [@ EXCEPT !.pc = "emb_gen"]]
  /\ UNCHANGED <<users, provider, settings, kbs, embs, blobs, nextId, nextKey, pendDel>>

\* generate_and_store_embedding_from_markdown, the DELETE statement: it
\* deletes, inside the session's transaction, the committed rows of the
\* entry; it waits while another transaction holds one of them
EmbDelete(s) ==
  /\ req[s].pc = "emb_del"
  /\ LET rows == EmbRows(req[s].id)
     IN IF Locked(s, rows)
          THEN /\ req' = [req EXCEPT ![s] = [@ EXCEPT !.snap = rows,
                                                      !.pc = "emb_wait"]]
               /\ pendDel' = pendDel
          ELSE /\ req' = [req EXCEPT ![s] = [@ EXCEPT !.pc = "emb_gen"]]
               /\ pendDel' = [pendDel EXCEPT ![s] = rows]
  /\ UNCHANGED <<users, provider, settings, kbs, embs, blobs, nextId, nextKey>>

\* the waiting DELETE goes on once the locks are released: it deletes the
\* rows of its snapshot that still exist
EmbUnblock(s) ==
  /\ req[s].pc = "emb_wait"
  /\ ~Locked(s, req[s].snap)
  /\ pendDel' = [pendDel EXCEPT ![s] = req[s].snap \cap embs]
  /\ req' = [req EXCEPT ![s] = [@ EXCEPT !.snap = {}, !.pc = "emb_gen"]]
  /\ UNCHANGED <<users, provider, settings, kbs, embs, blobs, nextId, nextKey>>

\* markdown_content[:max_embed_length]
embed_text_from_second(markdown_content) ==
  IF Len(markdown_content) > max_embed_length
    THEN SubSeq(markdown_content, 2, max_embed_length)
    ELSE Tail(markdown_content)

embed_text(markdown_content) ==
  IF Len(markdown_content) > max_embed_length
    THEN Prefix(markdown_content, max_embed_length) ELSE markdown_content

\* models.KnowledgeEmbedding(...) of generate_and_store_embedding_from_markdown
new_embedding(eid, kb_id, kb_name, embedding) ==
  [id |-> eid, kb_id |-> kb_id, section_address |-> "root",
   section_title |-> kb_name, embedding |-> embedding]

\* store_commit that loses the session's deletes
store_commit_keep(rows, deleted, added) == rows \cup {added}

\* the rows of knowledge_embeddings after the session's commit: its pending
\* deletes and its one insert take effect together
store_commit(rows, deleted, added) == (rows \ deleted) \cup {added}

\* after_embedding of a caller that lets the exception through
after_embedding_unguarded(r, outcome, version) ==
  LET r1 == [r EXCEPT !.emb = outcome]
  IN IF outcome = "raise" THEN Done(r1, 500, NoResp)
     ELSE IF r.op = "regenerate"
       THEN Done(r1, 200, [id |-> r.id, version |-> 0,
                           count |-> IF outcome = "ok" THEN 1 ELSE 0])
     ELSE Done(r1, 200, [id |-> r.id, version |-> version, count |-> 0])

\* what the caller of generate_and_store_embedding_from_markdown does with its
\* outcome ("ok", "null", "raise"): upload and reprocess swallow an exception
\* and answer with the metadata, regenerate answers with the count
after_embedding(r, outcome, version) ==
  LET r1 == [r EXCEPT !.emb = outcome]
  IN IF r.op = "regenerate"
       THEN IF outcome = "raise" THEN Done(r1, 500, NoResp)
            ELSE Done(r1, 200, [id |-> r.id, version |-> 0,
                                count |-> IF outcome = "ok" THEN 1 ELSE 0])
       ELSE Done(r1, 200, [id |-> r.id, version |-> version, count |-> 0])

\* the id the database gives a new knowledge_embeddings row: one that no row
\* has, committed or held by a session (ids are opaque; the least such one)
FreshEid ==
  LET used == {e.id : e \in embs}
                \cup UNION {{e.id : e \in pendDel[t]} : t \in Slots}
                \cup UNION {{e.id : e \in req[t].snap} : t \in Slots}
  IN CHOOSE n \in 1..(Cardinality(used) + 1) :
       n \notin used /\ \A m \in 1..(n - 1) : m \in used

\* generate_and_store_embedding_from_markdown from the embedding call on, and
\* the rest of the calling handler
EmbStore(s) ==
  /\ req[s].pc = "emb_gen"
  /\ LET r == req[s]
         name == IF r.op = "upload" THEN r.form.name ELSE r.row.name
     IN \E eo \in EmbOutcomes(provider), c \in IoOutcomes :
          LET embedding == generate_embedding(provider, embed_text(r.md),
                                              settings.EMBEDDING_DIMENSIONS, eo)
          IN IF embedding = PyNone
               THEN /\ c = "ok"
                    /\ embs' = embs
                    /\ req' = [req EXCEPT ![s] =
                                 after_embedding(r, "null", r.row.version)]
               ELSE IF /\ c = "ok"
                       /\ r.id \in DOMAIN kbs
                       /\ Components(embedding) = EMBEDDING_COLUMN_DIMENSIONS
                 THEN /\ embs' = store_commit(embs, pendDel[s],
                                   new_embedding(FreshEid, r.id, name, embedding))
                      /\ req' = [req EXCEPT ![s] =
                                   after_embedding(r, "ok", kbs[r.id].version)]
               ELSE /\ embs' = embs
                    /\ req' = [req EXCEPT ![s] =
                                 after_embedding(r, "raise", r.row.version)]
  /\ pendDel' = [pendDel EXCEPT ![s] = {}]
  /\ UNCHANGED <<users, provider, settings, kbs, blobs, nextId, nextKey>>

\* ------------------------------------------------------------- reprocess
KbIds == 1..MaxKb

\* reprocess_knowledge_base up to the empty-content check
reprocess_validate(user, id, file) ==
  LET ext == ExtOf(file.filename)
      ex == extract_content_from_file(file)
  IN IF ~is_kb_admin(user) THEN 403
     ELSE IF id \notin DOMAIN kbs THEN 404
     ELSE IF ext \notin ALLOWED_EXTENSIONS THEN 400
     ELSE IF ex[1] # 0 THEN ex[1]
     ELSE IF IsBlank(ex[2]) THEN 400
     ELSE 0

ReprocessStart(s, inputs) ==
  /\ Free(s)
  /\ nextKey <= MaxKey
  /\ \E i \in inputs, id \in KbIds :
       LET user == i.user
           file == i.file
           r == [Idle EXCEPT !.op = "reprocess", !.user = user.id,
                             !.id = id, !.file = file]
           st == reprocess_validate(user, id, file)
           content == extract_content_from_file(file)[2]
       IN req' = [req EXCEPT ![s] =
            IF st # 0 THEN Done(r, st, NoResp)
            ELSE IF needs_formatting(ExtOf(file.filename))
              THEN [r EXCEPT !.row = kbs[id], !.content = content,
                             !.pc = "rp_format"]
            ELSE [r EXCEPT !.row = kbs[id], !.content = content,
                           !.md = content, !.pc = "rp_remove"]]
  /\ UNCHANGED <<users, provider, settings, kbs, embs, blobs, nextId, nextKey, pendDel>>

ReprocessFormat(s) ==
  /\ req[s].pc = "rp_format"
  /\ \E outcome \in GenOutcomes(provider) :
       LET r == req[s]
       IN req' = [req EXCEPT ![s] =
            [r EXCEPT !.gen = outcome,
                      !.md = reprocess_normalize(ExtOf(r.file.filename),
                                                 r.content, provider, outcome),
                      !.pc = "rp_remove"]]
  /\ UNCHANGED <<users, provider, settings, kbs, embs, blobs, nextId, nextKey, pendDel>>

\* remove_files that forgets the legacy JSON file
remove_files_markdown_only(bs, row) ==
  IF row.markdown_filename \in DOMAIN bs
    THEN Remove(bs, row.markdown_filename) ELSE bs

\* "Delete old files" of reprocess_knowledge_base and "Delete files" of
\* delete_knowledge_base
remove_files(bs, row) ==
  LET b1 == IF row.json_filename # NoKey /\ row.json_filename \in DOMAIN bs
              THEN Remove(bs, row.json_filename) ELSE bs
  IN IF row.markdown_filename \in DOMAIN b1
       THEN Remove(b1, row.markdown_filename) ELSE b1

ReprocessRemove(s) ==
  /\ req[s].pc = "rp_remove"
  /\ blobs' = remove_files(blobs, req[s].row)
  /\ req' = [req EXCEPT ![s] = [@ EXCEPT !.pc = "rp_write"]]
  /\ UNCHANGED <<users, provider, settings, kbs, embs, nextId, nextKey, pendDel>>

ReprocessWrite(s) ==
  /\ req[s].pc = "rp_write"
  /\ nextKey <= MaxKey
  /\ \E w \in WriteOutcomes(req[s].md) :
       /\ blobs' = IF w.made THEN (nextKey :> w.blob) @@ blobs ELSE blobs
       /\ req' = [req EXCEPT ![s] =
            IF w.ok THEN [@ EXCEPT !.key = nextKey, !.pc = "rp_commit"]
            ELSE Done([@ EXCEPT !.key = nextKey], 500, NoResp)]
  /\ nextKey' = nextKey + 1
  /\ UNCHANGED <<users, provider, settings, kbs, embs, nextId, pendDel>>

\* reprocess_row that keeps the reference to the legacy structure
reprocess_row_keep_structure(current, loaded, markdown_filename) ==
  [current EXCEPT !.markdown_filename = markdown_filename,
                  !.version = loaded.version + 1]

\* reprocess_row without the increment
reprocess_row_same_version(current, loaded, markdown_filename) ==
  [current EXCEPT !.json_filename = NoKey,
                  !.markdown_filename = markdown_filename,
                  !.version = loaded.version]

\* "Update database record" of reprocess_knowledge_base: the columns the
\* handler assigns, from the row object its session loaded
reprocess_row(current, loaded, markdown_filename) ==
  [current EXCEPT !.json_filename = NoKey,
                  !.markdown_filename = markdown_filename,
                  !.version = loaded.version + 1]

ReprocessCommit(s) ==
  /\ req[s].pc = "rp_commit"
  /\ LET r == req[s]
     IN \E c \in IoOutcomes :
          IF c = "ok" /\ r.id \in DOMAIN kbs
            THEN LET row == reprocess_row(kbs[r.id], r.row, r.key)
                 IN /\ kbs' = [kbs EXCEPT ![r.id] = row]
                    /\ req' = [req EXCEPT ![s] =
                         [r EXCEPT !.row = row, !.pc = "emb_del"]]
            ELSE /\ kbs' = kbs
                 /\ req' = [req EXCEPT ![s] = Done(r, 500, NoResp)]
  /\ UNCHANGED <<users, provider, settings, embs, blobs, nextId, nextKey, pendDel>>

\* ------------------------------------------------- regenerate embeddings
\* regenerate_embeddings up to the embedding step
regenerate_validate(user, id) ==
  IF ~is_kb_admin(user) THEN 403
  ELSE IF id \notin DOMAIN kbs THEN 404
  ELSE IF ~Exists(kbs[id].markdown_filename) THEN 404
  ELSE 0

RegenerateStart(s, callers) ==
  /\ Free(s)
  /\ \E user \in callers, id \in KbIds :
       LET r == [Idle EXCEPT !.op = "regenerate", !.user = user.id, !.id = id]
           st == regenerate_validate(user, id)
       IN req' = [req EXCEPT ![s] =
            IF st # 0 THEN Done(r, st, NoResp)
            ELSE [r EXCEPT !.row = kbs[id],
                           !.md = blobs[kbs[id].markdown_filename].text,
                           !.pc = "emb_del"]]
  /\ UNCHANGED <<users, provider, settings, kbs, embs, blobs, nextId, nextKey, pendDel>>

\* ---------------------------------------------------------- metadata update
\* "Update fields" of update_knowledge_base
update_row_new_version(row, update) ==
  [row EXCEPT
     !.name = IF update.name # None THEN update.name ELSE @,
     !.domain = IF update.domain # None THEN update.domain ELSE @,
     !.description =
        IF update.description # None THEN <<update.description>> ELSE @,
     !.version = @ + 1]

update_row(row, update) ==
  [row EXCEPT
     !.name = IF update.name # None THEN update.name ELSE @,
     !.domain = IF update.domain # None THEN update.domain ELSE @,
     !.description =
        IF update.description # None THEN <<update.description>> ELSE @]

update_knowledge_base(s, callers, updates) ==
  /\ Free(s)
  /\ \E user \in callers, id \in KbIds, update \in updates, c \in IoOutcomes :
       LET r == [Idle EXCEPT !.op = "update", !.user = user.id, !.id = id]
       IN IF ~is_kb_admin(user)
            THEN /\ c = "ok"
                 /\ kbs' = kbs
                 /\ req' = [req EXCEPT ![s] = Done(r, 403, NoResp)]
          ELSE IF id \notin DOMAIN kbs
            THEN /\ c = "ok"
                 /\ kbs' = kbs
                 /\ req' = [req EXCEPT ![s] = Done(r, 404, NoResp)]
          ELSE IF c = "ok"
            THEN LET row == update_row(kbs[id], update)
                 IN /\ kbs' = [kbs EXCEPT ![id] = row]
                    /\ req' = [req EXCEPT ![s] =
                         Done([r EXCEPT !.row = row], 200,
                              [id |-> id, version |-> row.version, count |-> 0])]
          ELSE /\ kbs' = kbs
               /\ req' = [req EXCEPT ![s] = Done(r, 500, NoResp)]
  /\ UNCHANGED <<users, provider, settings, embs, blobs, nextId, nextKey, pendDel>>

\* ------------------------------------------------------------------ delete
\* delete_knowledge_base up to the removal of the files
DeleteStart(s, callers) ==
  /\ Free(s)
  /\ \E user \in callers, id \in KbIds :
       LET r == [Idle EXCEPT !.op = "delete", !.user = user.id, !.id = id]
       IN IF ~is_kb_admin(user)
            THEN /\ blobs' = blobs
                 /\ req' = [req EXCEPT ![s] = Done(r, 403, NoResp)]
          ELSE IF id \notin DOMAIN kbs
            THEN /\ blobs' = blobs
                 /\ req' = [req EXCEPT ![s] = Done(r, 404, NoResp)]
          ELSE /\ blobs' = remove_files(blobs, kbs[id])
               /\ req' = [req EXCEPT ![s] =
                    [r EXCEPT !.row = kbs[id], !.pc = "del_commit"]]
  /\ UNCHANGED <<users, provider, settings, kbs, embs, nextId, nextKey, pendDel>>

\* db.delete(kb); db.commit(): the row goes, and with it (cascade) its
\* embedding rows; the statement waits for the row locks of other sessions
DeleteCommit(s) ==
  /\ req[s].pc = "del_commit"
  /\ ~Locked(s, EmbRows(req[s].id))
  /\ LET r == req[s]
     IN \E c \in IoOutcomes :
          IF c = "ok" /\ r.id \in DOMAIN kbs
            THEN /\ kbs' = [k \in DOMAIN kbs \ {r.id} |-> kbs[k]]
                 /\ embs' = embs \ EmbRows(r.id)
                 /\ req' = [req EXCEPT ![s] = Done(r, 200, NoResp)]
            ELSE /\ kbs' = kbs
                 /\ embs' = embs
                 /\ req' = [req EXCEPT ![s] = Done(r, 500, NoResp)]
  /\ UNCHANGED <<users, provider, settings, blobs, nextId, nextKey, pendDel>>

\* --------------------------------------------------------- reading handlers
\* get_knowledge_base: its status
get_knowledge_base(id) ==
  IF id \notin DOMAIN kbs THEN 404
  ELSE IF ~Exists(kbs[id].markdown_filename) THEN 404
  ELSE 200

\* list_knowledge_bases: the ids it returns (domain None: no filter)
list_knowledge_bases(domain) ==
  {id \in DOMAIN kbs : domain = None \/ kbs[id].domain = domain}

\* --------------------------------------------------------- section lookup
\* dotted strings and what str.split(".") makes of them; ".".join(parts) is
\* the string that splits into parts
Dotted ==
  ("" :> <<"">>) @@ ("1" :> <<"1">>) @@ ("2" :> <<"2">>) @@ ("3" :> <<"3">>)
    @@ ("1." :> <<"1", "">>) @@ ("1.1" :> <<"1", "1">>)
    @@ ("1.2" :> <<"1", "2">>) @@ ("2.1" :> <<"2", "1">>)
    @@ ("1.1.1" :> <<"1", "1", "1">>) @@ ("1.1.2" :> <<"1", "1", "2">>)

split(address) == Dotted[address]

join(parts) == CHOOSE a \in DOMAIN Dotted : Dotted[a] = parts

\* dict.get(key, default)
Get(d, key, default) == IF key \in DOMAIN d THEN d[key] ELSE default

\* a section of the structure, and a leaf written without its child list
Section(id, title, subsections) ==
  [id |-> id, title |-> title, subsections |-> subsections]

Leaf(id, title) == [id |-> id, title |-> title]

\* the structure files of legacy entries, by their text: a numbered tree;
\* a child numbered off its parent and a deep number at the root; two
\* sections of one number and a section without a number; a list of
\* leaves; no section list
Structures ==
  ("{json}" :>
     [name |-> "kb", sections |->
        <<Section("1", "one",
            <<Section("1.1", "one-one", <<Leaf("1.1.1", "deep")>>),
              Leaf("1.2", "one-two")>>),
          Section("2", "two", << >>)>>])
  @@ ("{json:off}" :>
     [name |-> "kb", sections |->
        <<Section("1", "one", <<Leaf("2", "stray"), Leaf("1", "again")>>),
          Leaf("1.1", "rootdeep")>>])
  @@ ("{json:twice}" :>
     [name |-> "kb", sections |->
        <<Section("1", "first", << >>),
          Section("1", "second", <<Leaf("1.1", "hidden")>>),
          [title |-> "unnumbered",
           subsections |-> <<Leaf("1.1", "orphan")>>]>>])
  @@ ("{json:flat}" :>
     [name |-> "kb", sections |->
        <<Leaf("1", "one"), Leaf("2", "two"), Leaf("3", "three")>>])
  @@ ("{json:bare}" :> [name |-> "kb"])

\* json.loads of a structure file
json_structure(text) == Structures[text[1]]

\* no section: Python's None where a section is expected
NoSection == [found |-> FALSE]

\* find_section: the first section of the list with the id
find_section(sections, target_id) ==
  LET hits == {i \in 1..Len(sections) :
                 Get(sections[i], "id", None) = target_id}
  IN IF hits = {} THEN NoSection
     ELSE [found |-> TRUE,
           section |-> sections[CHOOSE i \in hits : \A j \in hits : i <= j]]

RECURSIVE find_from(_, _, _)
\* the loop of get_section_by_address with the last segment for target_id
find_by_last_segment(current_sections, parts, i) ==
  LET target_id == parts[i]
      current_section == find_section(current_sections, target_id)
  IN IF ~current_section.found THEN NoSection
     ELSE IF i < Len(parts)
       THEN find_from(Get(current_section.section, "subsections", << >>),
                      parts, i + 1)
     ELSE current_section

\* the loop of get_section_by_address from its i-th pass on
find_from(current_sections, parts, i) ==
  LET target_id == join(SubSeq(parts, 1, i))
      current_section == find_section(current_sections, target_id)
  IN IF ~current_section.found THEN NoSection
     ELSE IF i < Len(parts)
       THEN find_from(Get(current_section.section, "subsections", << >>),
                      parts, i + 1)
     ELSE current_section

get_section_by_address(structure, address) ==
  find_from(Get(structure, "sections", << >>), split(address), 1)

\* get_section: its status and the section it answers with
get_section(kb_id, address) ==
  IF kb_id \notin DOMAIN kbs THEN [status |-> 404, section |-> NoSection]
  ELSE IF kbs[kb_id].json_filename = NoKey
    THEN [status |-> 400, section |-> NoSection]
  ELSE IF ~Exists(kbs[kb_id].json_filename)
    THEN [status |-> 404, section |-> NoSection]
  ELSE LET structure == json_structure(blobs[kbs[kb_id].json_filename].text)
           section == get_section_by_address(structure, address)
       IN IF ~section.found THEN [status |-> 404, section |-> NoSection]
          ELSE [status |-> 200, section |-> section]

\* get_section, a request
GetSection(s) ==
  /\ Free(s)
  /\ \E kb_id \in 1..(MaxKb + 1), address \in DOMAIN Dotted :
       LET answer == get_section(kb_id, address)
       IN req' = [req EXCEPT ![s] =
            [op |-> "get_section", pc |-> "done", id |-> kb_id,
             address |-> address, status |-> answer.status,
             section |-> answer.section]]
  /\ UNCHANGED <<users, provider, settings, kbs, embs, blobs, nextId, nextKey, pendDel>>

\* a knowledge base of one legacy entry with some structure file
SectionInit ==
  /\ settings = DefaultSettings
  /\ provider = AIService(settings)
  /\ kbs = (1 :> LegacyRow)
  /\ \E text \in DOMAIN Structures :
       blobs = (LegacyKey :> Blob(<<"#", "legacy">>)) @@
               (LegacyJsonKey :> Blob(<<text>>))
  /\ embs = {}
  /\ nextId = 2
  /\ nextKey = 1
  /\ req = [s \in Slots |-> Idle]
  /\ pendDel = [s \in Slots |-> {}]
  /\ users = UserRows

\* ---------------------------------------------------------------- search
\* floats are fixed-point numbers: Unit stands for 1.0
Unit == 10 * 10000

\* where the embedding backend puts a text, for the texts whose place is
\* known; the cosine distance of two placed texts is the gap of their places
Place ==
  (<<"q">> :> 0) @@ (<<"#", "near">> :> 10000) @@ (<<"#", "edge">> :> 40000)
    @@ (<<"#", "mid">> :> 50000) @@ (<<"#", "far">> :> 90000)
    @@ (<<"#", "opposite">> :> 130000)

\* the distances pgvector may report between vectors whose place is unknown
OtherDistances == {5000, 50000}

TextOf(embedding) == SubSeq(embedding, 3, Len(embedding))

Abs(x) == IF x < 0 THEN 0 - x ELSE x

\* ke.embedding <=> :embedding, the values the operator can yield: 0 for
\* equal vectors, a value in [0, 2] otherwise
cosine_distances(u, v) ==
  IF u = v THEN {0}
  ELSE IF TextOf(u) \in DOMAIN Place /\ TextOf(v) \in DOMAIN Place
    THEN {Abs(Place[TextOf(u)] - Place[TextOf(v)])}
  ELSE OtherDistances

\* one evaluation of the operator against every stored vector
DistanceMaps(rows, query_embedding) ==
  LET stored == {e.embedding : e \in rows}
      values == UNION {cosine_distances(v, query_embedding) : v \in stored}
  IN {dm \in [stored -> values] :
        \A v \in stored : dm[v] \in cosine_distances(v, query_embedding)}

\* if domain:
Truthy(domain) == domain \notin {None, ""}

\* FROM knowledge_embeddings ke JOIN knowledge_bases kb ON ke.kb_id = kb.id
\* [WHERE kb.domain = :domain]
joined_rows(domain) ==
  {e \in embs : /\ e.kb_id \in DOMAIN kbs
                /\ Truthy(domain) => kbs[e.kb_id].domain = domain}

\* nearest_rows of a statement without its ORDER BY
nearest_rows_unordered(rows, dm, limit) ==
  LET k == Min(limit, Cardinality(rows))
  IN {sq \in [1..k -> rows] : \A i, j \in 1..k : i < j => sq[i] # sq[j]}

\* ORDER BY ke.embedding <=> :embedding LIMIT :limit, every order the
\* database may give to rows at the same distance
nearest_rows(rows, dm, limit) ==
  LET k == Min(limit, Cardinality(rows))
  IN {sq \in [1..k -> rows] :
        /\ \A i, j \in 1..k : i < j =>
             /\ sq[i] # sq[j]
             /\ dm[sq[i].embedding] <= dm[sq[j].embedding]
        /\ \A e \in rows \ {sq[i] : i \in 1..k} :
             \A i \in 1..k : dm[sq[i].embedding] <= dm[e.embedding]}

\* max(0, 1 - float(row.distance))
similarity(distance) ==
  IF Unit - distance > 0 THEN Unit - distance ELSE 0

\* round(similarity, 4): to the nearest ten-thousandth, a tie to the even one
round4(x) ==
  LET step == Unit \div 10000
      low == (x \div step) * step
      rest == x - low
  IN IF 2 * rest < step THEN low
     ELSE IF 2 * rest > step THEN low + step
     ELSE IF (low \div step) % 2 = 0 THEN low ELSE low + step

\* the markdown file as the search loop reads it: "" when it cannot be read
markdown_content_of(markdown_filename) ==
  IF Exists(markdown_filename) /\ blobs[markdown_filename].complete
    THEN blobs[markdown_filename].text ELSE << >>

\* search_results.append({...}) of search_knowledge_base_internal
internal_result(e, distance) ==
  [kb_id |-> e.kb_id, kb_name |-> kbs[e.kb_id].name,
   domain |-> kbs[e.kb_id].domain,
   description |-> IF kbs[e.kb_id].description \in {PyNone, << >>}
                     THEN << >> ELSE kbs[e.kb_id].description,
   content |-> markdown_content_of(kbs[e.kb_id].markdown_filename),
   similarity_score |-> round4(similarity(distance))]

RECURSIVE internal_results(_, _, _)
\* the loop of search_knowledge_base_internal with a filter that also drops
\* a similarity equal to min_score
internal_results_strict(rows, dm, min_score) ==
  IF rows = << >> THEN << >>
  ELSE LET row == Head(rows)
           rest == internal_results(Tail(rows), dm, min_score)
       IN IF similarity(dm[row.embedding]) <= min_score THEN rest
          ELSE <<internal_result(row, dm[row.embedding])>> \o rest

\* the loop of search_knowledge_base_internal over the fetched rows
internal_results(rows, dm, min_score) ==
  IF rows = << >> THEN << >>
  ELSE LET row == Head(rows)
           rest == internal_results(Tail(rows), dm, min_score)
       IN IF similarity(dm[row.embedding]) < min_score THEN rest
          ELSE <<internal_result(row, dm[row.embedding])>> \o rest

\* a search in flight
Search(op, in, query_embedding) ==
  [op |-> op, pc |-> "sql", query |-> in.query, limit |-> in.limit,
   min_score |-> in.min_score, domain |-> in.domain,
   query_embedding |-> query_embedding, rows |-> << >>, dm |-> << >>,
   results |-> << >>, status |-> 0]

SearchDone(r, status, rows, dm, results) ==
  [r EXCEPT !.pc = "done", !.status = status, !.rows = rows, !.dm = dm,
            !.results = results]

\* search_knowledge_base_internal up to the query embedding
InternalSearchStart(s, inputs) ==
  /\ Free(s)
  /\ \E in \in inputs, eo \in EmbOutcomes(provider) :
       LET query_embedding ==
             generate_embedding(provider, in.query,
                                settings.EMBEDDING_DIMENSIONS, eo)
           r == Search("search_internal", in, query_embedding)
       IN req' = [req EXCEPT ![s] =
            IF query_embedding = PyNone
              THEN SearchDone(r, 200, << >>, << >>, << >>) ELSE r]
  /\ UNCHANGED <<users, provider, settings, kbs, embs, blobs, nextId, nextKey, pendDel>>

\* the statement of either search: the rows it fetches, or its failure (the
\* operator rejects a query vector of another dimension than the column's)
Fetched(r) ==
  LET rows == joined_rows(r.domain)
  IN IF rows # {} /\ Components(r.query_embedding) # EMBEDDING_COLUMN_DIMENSIONS
       THEN {}
       ELSE UNION {{[rows |-> sq, dm |-> dm] :
                      sq \in nearest_rows(rows, dm, r.limit)} :
                   dm \in DistanceMaps(rows, r.query_embedding)}

\* search_knowledge_base_internal from db.execute on
InternalSearchQuery(s) ==
  /\ req[s].pc = "sql"
  /\ req[s].op = "search_internal"
  /\ LET r == req[s]
     IN \/ \E f \in Fetched(r) :
             req' = [req EXCEPT ![s] =
               SearchDone(r, 200, f.rows, f.dm,
                          internal_results(f.rows, f.dm, r.min_score))]
        \/ /\ Fetched(r) = {}
           /\ req' = [req EXCEPT ![s] =
                        SearchDone(r, 500, << >>, << >>, << >>)]
  /\ UNCHANGED <<users, provider, settings, kbs, embs, blobs, nextId, nextKey, pendDel>>

\* search_results.append({...}) of the search endpoint
endpoint_result(e, distance) ==
  [kb_id |-> e.kb_id, kb_name |-> kbs[e.kb_id].name,
   domain |-> kbs[e.kb_id].domain,
   description |-> IF kbs[e.kb_id].description \in {PyNone, << >>}
                     THEN << >> ELSE kbs[e.kb_id].description,
   similarity_score |-> round4(similarity(distance))]

\* the loop of the search endpoint over the fetched rows
endpoint_results(rows, dm) ==
  [i \in 1..Len(rows) |-> endpoint_result(rows[i], dm[rows[i].embedding])]

\* search_knowledge_base up to the query embedding
SearchStart(s, inputs) ==
  /\ Free(s)
  /\ \E in \in inputs, eo \in EmbOutcomes(provider) :
       LET query_embedding ==
             generate_embedding(provider, in.query,
                                settings.EMBEDDING_DIMENSIONS, eo)
           r == Search("search", in, query_embedding)
       IN req' = [req EXCEPT ![s] =
            IF query_embedding = PyNone
              THEN SearchDone(r, 500, << >>, << >>, << >>) ELSE r]
  /\ UNCHANGED <<users, provider, settings, kbs, embs, blobs, nextId, nextKey, pendDel>>

\* search_knowledge_base from db.execute on
SearchQuery(s) ==
  /\ req[s].pc = "sql"
  /\ req[s].op = "search"
  /\ LET r == req[s]
     IN \/ \E f \in Fetched(r) :
             req' = [req EXCEPT ![s] =
               SearchDone(r, 200, f.rows, f.dm, endpoint_results(f.rows, f.dm))]
        \/ /\ Fetched(r) = {}
           /\ req' = [req EXCEPT ![s] =
                        SearchDone(r, 500, << >>, << >>, << >>)]
  /\ UNCHANGED <<users, provider, settings, kbs, embs, blobs, nextId, nextKey, pendDel>>

\* the documents of the searched knowledge base: markdown uploads of the
\* first admin, and whether the embedding of the upload was stored
SearchEntries ==
  <<[text |-> <<"#", "near">>, domain |-> "backend", embedded |-> TRUE],
    [text |-> <<"#", "edge">>, domain |-> "frontend", embedded |-> TRUE],
    [text |-> <<"#", "mid">>, domain |-> "backend", embedded |-> TRUE],
    [text |-> <<"#", "far">>, domain |-> "backend", embedded |-> TRUE],
    [text |-> <<"#", "far">>, domain |-> "frontend", embedded |-> FALSE],
    [text |-> <<"#", "opposite">>, domain |-> "frontend", embedded |-> TRUE]>>

\* which documents were uploaded, in the order of SearchEntries: the order
\* of the uploads shows in the ids only
SearchUploads(n) ==
  {[i \in 1..n |-> SearchEntries[pick[i]]] :
     pick \in {p \in [1..n -> 1..Len(SearchEntries)] :
                \A i, j \in 1..n : i < j => p[i] <= p[j]}}

SearchInputs ==
  [query : {<<"q">>, <<"#", "near">>}, limit : 0..MaxLimit,
   min_score : {0, 6 * (Unit \div 10), 9 * (Unit \div 10)},
   domain : {None, "", "backend"}]

\* the endpoint takes no min_score
EndpointInputs == {in \in SearchInputs : in.min_score = 0}

\* uploads of the first admin, one readable document per extension
RoundTripUploads ==
  {i \in UploadInputs :
     /\ i.user = User0
     /\ i.form = Form0
     /\ i.file.pdf = "ok"
     /\ i.file.data \in {<<"alpha">>, <<"#", "beta">>}}

\* searches with the text of an uploaded document
RoundTripQueries ==
  [query : {i.file.data : i \in RoundTripUploads}, limit : {1, MaxLimit},
   min_score : {0, 9 * (Unit \div 10)}, domain : {None, Form0.domain}]

\* the state after the uploads of some documents, one entry each
SearchInit ==
  /\ settings \in PlainSettings
  /\ provider = AIService(settings)
  /\ \E n \in 0..MaxRows : \E docs \in SearchUploads(n) :
       /\ kbs = [i \in 1..n |->
                   new_row([name |-> "kb", domain |-> docs[i].domain,
                            description |-> PyNone],
                           auto_description(PyNone, docs[i].text), i)]
       /\ blobs = [i \in 1..n |-> Blob(docs[i].text)]
       /\ embs = {new_embedding(i, i, "kb", Vector(embed_text(docs[i].text))) :
                    i \in {j \in 1..n : docs[j].embedded}}
       /\ nextId = n + 1
       /\ nextKey = n + 1
  /\ req = [s \in Slots |-> Idle]
  /\ pendDel = [s \in Slots |-> {}]
  /\ users = UserRows

\* the values a distance column can hand to the score expression
DistanceValues == {k * (Unit \div 40) : k \in (0 - 40)..120}

\* the state with a fetched row at some distance about to be scored
ScoreInit ==
  /\ settings = DefaultSettings
  /\ provider = AIService(settings)
  /\ kbs = << >>
  /\ embs = {}
  /\ blobs = << >>
  /\ nextId = 1
  /\ nextKey = 1
  /\ pendDel = [s \in Slots |-> {}]
  /\ users = UserRows
  /\ \E d \in DistanceValues :
       req = [s \in Slots |->
                [op |-> "score", pc |-> "row", distance |-> d,
                 similarity |-> 0, similarity_score |-> 0]]

\* one pass of the result loop: the similarity of the row and its rounding
ScoreRow(s) ==
  /\ req[s].pc = "row"
  /\ req[s].op = "score"
  /\ LET r == req[s]
     IN req' = [req EXCEPT ![s] =
          [r EXCEPT !.pc = "done",
                    !.similarity = similarity(r.distance),
                    !.similarity_score = round4(similarity(r.distance))]]
  /\ UNCHANGED <<users, provider, settings, kbs, embs, blobs, nextId, nextKey, pendDel>>

\* ---------------------------------------------------------- the gateway
\* a call of the gateway by some caller: the texts it passes, the backend
\* calls issued so far (their inputs, in order), the model chosen, and what
\* the caller got
Call(op, arg, complexity) ==
  [op |-> op, pc |-> "backend", arg |-> arg, complexity |-> complexity,
   model |-> None, issued |-> << >>, outcomes |-> << >>, result |-> << >>]

CallDone(r, result) == [r EXCEPT !.pc = "done", !.result = result]

\* generate_text up to the backend call
GenerateTextStart(s) ==
  /\ Free(s)
  /\ \E complexity \in Complexities :
       LET r == Call("generate_text", <<"hi">>, complexity)
       IN req' = [req EXCEPT ![s] =
            IF provider = "none"
              THEN CallDone(r, generate_text(provider, r.arg, "nokey"))
              ELSE [r EXCEPT !.model =
                      get_model(provider, settings, complexity)]]
  /\ UNCHANGED <<users, provider, settings, kbs, embs, blobs, nextId, nextKey, pendDel>>

\* generate_text from the backend call on
GenerateTextReturn(s) ==
  /\ req[s].pc = "backend"
  /\ req[s].op = "generate_text"
  /\ \E outcome \in GenOutcomes(provider) :
       LET r == req[s]
       IN req' = [req EXCEPT ![s] =
            CallDone([r EXCEPT !.issued = Append(r.issued, r.arg),
                               !.outcomes = Append(r.outcomes, outcome)],
                     generate_text(provider, r.arg, outcome))]
  /\ UNCHANGED <<users, provider, settings, kbs, embs, blobs, nextId, nextKey, pendDel>>

\* generate_embedding up to the backend call
GenerateEmbeddingStart(s) ==
  /\ Free(s)
  /\ LET r == Call("generate_embedding", <<"hi">>, None)
     IN req' = [req EXCEPT ![s] =
          IF provider = "none"
            THEN CallDone(r, generate_embedding(provider, r.arg,
                               settings.EMBEDDING_DIMENSIONS, "nokey"))
            ELSE r]
  /\ UNCHANGED <<users, provider, settings, kbs, embs, blobs, nextId, nextKey, pendDel>>

\* generate_embedding from the backend call on
GenerateEmbeddingReturn(s) ==
  /\ req[s].pc = "backend"
  /\ req[s].op = "generate_embedding"
  /\ \E outcome \in EmbOutcomes(provider) :
       LET r == req[s]
       IN req' = [req EXCEPT ![s] =
            CallDone([r EXCEPT !.issued = Append(r.issued, r.arg),
                               !.outcomes = Append(r.outcomes, outcome)],
                     generate_embedding(provider, r.arg,
                                        settings.EMBEDDING_DIMENSIONS, outcome))]
  /\ UNCHANGED <<users, provider, settings, kbs, embs, blobs, nextId, nextKey, pendDel>>

\* the lists of texts a batch is called with
BatchTexts ==
  UNION {[1..n -> {<<"a">>, <<"b">>}] : n \in 0..MaxBatch}

\* results.append(embedding) that leaves a failed text out
batch_append_found(results, embedding) ==
  IF embedding = PyNone THEN results ELSE Append(results, embedding)

\* results.append(embedding)
batch_append(results, embedding) == Append(results, embedding)

\* generate_embeddings_batch is called
BatchStart(s) ==
  /\ Free(s)
  /\ \E texts \in BatchTexts :
       req' = [req EXCEPT ![s] =
                 [Call("batch", texts, None) EXCEPT !.pc = "loop"]]
  /\ UNCHANGED <<users, provider, settings, kbs, embs, blobs, nextId, nextKey, pendDel>>

\* for text in texts: generate_embedding(text) up to its backend call; with
\* no provider it returns None at once
BatchIssue(s) ==
  /\ req[s].pc = "loop"
  /\ req[s].op = "batch"
  /\ Len(req[s].outcomes) < Len(req[s].arg)
  /\ LET r == req[s]
         text == r.arg[Len(r.outcomes) + 1]
     IN req' = [req EXCEPT ![s] =
          IF provider = "none"
            THEN [r EXCEPT !.outcomes = Append(r.outcomes, "nokey"),
                           !.result = batch_append(r.result,
                              generate_embedding(provider, text,
                                settings.EMBEDDING_DIMENSIONS, "nokey"))]
            ELSE [r EXCEPT !.issued = Append(r.issued, text),
                           !.pc = "await"]]
  /\ UNCHANGED <<users, provider, settings, kbs, embs, blobs, nextId, nextKey, pendDel>>

\* the awaited generate_embedding returns and its result is appended
BatchResult(s) ==
  /\ req[s].pc = "await"
  /\ req[s].op = "batch"
  /\ \E outcome \in EmbOutcomes(provider) :
       LET r == req[s]
           text == r.arg[Len(r.outcomes) + 1]
           embedding == generate_embedding(provider, text,
                                           settings.EMBEDDING_DIMENSIONS, outcome)
       IN req' = [req EXCEPT ![s] =
            [r EXCEPT !.outcomes = Append(r.outcomes, outcome),
                      !.result = batch_append(r.result, embedding),
                      !.pc = "loop"]]
  /\ UNCHANGED <<users, provider, settings, kbs, embs, blobs, nextId, nextKey, pendDel>>

\* the loop is over: return results
BatchReturn(s) ==
  /\ req[s].pc = "loop"
  /\ req[s].op = "batch"
  /\ Len(req[s].outcomes) = Len(req[s].arg)
  /\ req' = [req EXCEPT ![s] = CallDone(req[s], req[s].result)]
  /\ UNCHANGED <<users, provider, settings, kbs, embs, blobs, nextId, nextKey, pendDel>>

\* the process is stopped and started again under another configuration:
\* settings = Settings() and ai_service = AIService() run at import
Restart(configurations) ==
  /\ Quiet
  /\ settings' \in configurations \ {settings}
  /\ provider' = AIService(settings')
  /\ UNCHANGED <<users, kbs, embs, blobs, nextId, nextKey, req, pendDel>>

\* ---------------------------------------------- structured-output parser
\* texts are sequences of tokens: the fence marker, the language tag, white
\* space, prose, braces, and the pieces of an object's one member, in which
\* <dq> stands for a double quote
\* the marker of a fenced code block, three backticks
Fence == "<fence>"

\* a member, the same in JSON and in Python
Member == "<dq>a<dq>:1"

\* a member up to the inside of its string value, and the rest of the value
StrOpen == "<dq>a<dq>:<dq>x"
StrClose == "y<dq>"

\* a member in Python quotes with a JSON literal, before and after the
\* substitution of attempt 4
PyMember == "'a':true"
PyMemberNative == "'a':True"

\* what may stand inside a JSON or Python string
InString == {" ", "noise", Fence, "json", "{", "}"}

\* json.JSONDecodeError, and any exception of ast.literal_eval
ParseError == <<"<error>">>

\* str(parse_error) of the JSONDecodeError of attempt 1: a message and a
\* position, nothing of the text
DirectParseError == <<"JSONDecodeError", "attempt 1">>

\* cleaned_response[:500] of the debug print
preview_limit == 500

\* the detail of the HTTPException with the preview put into it
failure_detail_with_preview(parse_error, cleaned_response) ==
  <<<<"AI response was not valid JSON. Please try again. Error:">>,
    parse_error, Prefix(cleaned_response, preview_limit)>>

\* detail=f"AI response was not valid JSON. Please try again. Error: ..."
failure_detail(parse_error, cleaned_response) ==
  <<<<"AI response was not valid JSON. Please try again. Error:">>,
    parse_error>>

\* the two prints of "All attempts failed": the original error, and the
\* cleaned response cut to the preview length
failure_log(parse_error, cleaned_response) ==
  <<parse_error, Prefix(cleaned_response, preview_limit)>>

\* the object a text denotes under a set of member tokens, or ParseError
object_of(text, members) ==
  LET t == Strip(text)
  IN IF Len(t) < 2 \/ t[1] # "{" \/ t[Len(t)] # "}" THEN ParseError
     ELSE LET inner == Strip(SubSeq(t, 2, Len(t) - 1))
          IN IF inner = << >> THEN <<"dict">>
             ELSE IF Len(inner) = 1 /\ inner[1] \in members
               THEN <<"dict">> \o inner
             ELSE IF /\ Len(inner) >= 2
                     /\ inner[1] = StrOpen
                     /\ inner[Len(inner)] = StrClose
                     /\ \A i \in 2..(Len(inner) - 1) : inner[i] \in InString
               THEN <<"dict">> \o inner
             ELSE ParseError

\* json.loads
json_loads(text) == object_of(text, {Member})

\* cleaned_response.split(marker)[1] of a text that starts with the marker
split_fence_1(text) ==
  LET rest == Tail(text)
      marks == {i \in 1..Len(rest) : rest[i] = Fence}
  IN IF marks = {} THEN rest
     ELSE SubSeq(rest, 1, (CHOOSE i \in marks : \A j \in marks : i <= j) - 1)

\* "Clean up response (remove markdown code blocks if present)"
clean_response(ai_response) ==
  LET stripped == Strip(ai_response)
      unfenced ==
        IF stripped # << >> /\ stripped[1] = Fence
          THEN LET part == split_fence_1(stripped)
               IN IF part # << >> /\ part[1] = "json" THEN Tail(part) ELSE part
          ELSE stripped
  IN Strip(unfenced)

\* what the template '\\n' of re.sub puts in place of a match: the template
\* escape \n, a newline
NewlineTemplate == "\n"

\* the lookahead (?=[^"]*"[,\}\]]) at position i: the next double quote
\* after i ends a string and is followed at once by a closing brace
StringEndsAfter(text, i) ==
  \E j \in (i + 1)..(Len(text) - 1) :
    /\ text[j] = StrClose
    /\ text[j + 1] = "}"
    /\ \A k \in (i + 1)..(j - 1) : text[k] \notin {Member, StrOpen, StrClose}

\* re.sub(r'(?<!\\)\n(?=[^"]*"[,\}\]])', '\\n', cleaned_response)
newline_repair(text) ==
  [i \in 1..Len(text) |->
     IF text[i] = "\n" /\ StringEndsAfter(text, i)
       THEN NewlineTemplate ELSE text[i]]

\* cleaned_response[start:end+1] from the first '{' to the last '}', when
\* both are found
json_portion(text) ==
  LET opens == {i \in 1..Len(text) : text[i] = "{"}
      closes == {i \in 1..Len(text) : text[i] = "}"}
  IN IF opens = {} \/ closes = {} THEN [found |-> FALSE, text |-> << >>]
     ELSE [found |-> TRUE,
           text |-> SubSeq(text, CHOOSE i \in opens : \A j \in opens : i <= j,
                                 CHOOSE i \in closes : \A j \in closes : i >= j)]

\* .replace('true', 'True').replace('false', 'False').replace('null', 'None')
replace_literals(text) ==
  [i \in 1..Len(text) |-> IF text[i] = PyMember THEN PyMemberNative ELSE text[i]]

\* ast.literal_eval
literal_eval(text) == object_of(text, {Member, PyMemberNative})

\* the objects and the other texts an answer is made of
JsonObjects ==
  {<<"{", Member, "}">>, <<"{", "}">>, <<"{", "\n", Member, "\n", "}">>,
   <<"{", StrOpen, " ", StrClose, "}">>, <<"{", StrOpen, Fence, StrClose, "}">>}

OtherTexts ==
  {<<"{", StrOpen, "\n", StrClose, "}">>, <<"{", PyMember, "}">>,
   <<"noise">>, <<"noise", "\n", "noise">>, <<"{", "noise", "}">>,
   <<"}", "noise", "{">>, << >>}

\* an answer of prose longer than the preview
LongProse == [i \in 1..(preview_limit + 1) |-> "noise"]

\* the ways an answer wraps its payload
Wrapped(c) ==
  {c,
   <<" ">> \o c \o <<"\n">>,
   <<Fence, "json", "\n">> \o c \o <<"\n", Fence>>,
   <<Fence, "\n">> \o c \o <<"\n", Fence>>,
   <<Fence, "json", "\n">> \o c,
   <<"noise">> \o c \o <<"noise">>,
   <<"noise", "\n", Fence, "json", "\n">> \o c \o <<"\n", Fence>>,
   <<Fence, "json", "\n">> \o c \o <<"\n", Fence, "\n", "noise">>}

AiResponses ==
  UNION {Wrapped(c) : c \in JsonObjects \cup OtherTexts} \cup {LongProse}

\* the parser at work on an answer
Parsing(ai_response) ==
  [op |-> "parse", pc |-> "attempt1", ai_response |-> ai_response,
   cleaned_response |-> clean_response(ai_response), tried |-> << >>,
   structure |-> ParseError, parse_error |-> PyNone, status |-> 0,
   detail |-> << >>, log |-> << >>]

\* the attempt has run: return its structure, or go on to the next attempt,
\* or raise HTTPException(500) after the last
Attempted(r, n, structure) ==
  LET t == [r EXCEPT !.tried = Append(r.tried, n)]
  IN IF structure # ParseError
       THEN [t EXCEPT !.pc = "done", !.status = 200, !.structure = structure]
     ELSE IF n = 1
       THEN [t EXCEPT !.pc = "attempt2", !.parse_error = DirectParseError]
     ELSE IF n = 2 THEN [t EXCEPT !.pc = "attempt3"]
     ELSE IF n = 3 THEN [t EXCEPT !.pc = "attempt4"]
     ELSE [t EXCEPT !.pc = "done", !.status = 500,
                    !.detail = failure_detail(t.parse_error,
                                              t.cleaned_response),
                    !.log = failure_log(t.parse_error, t.cleaned_response)]

\* parse_ai_json_response is called: the clean-up
ParseStart(s) ==
  /\ Free(s)
  /\ \E ai_response \in AiResponses :
       req' = [req EXCEPT ![s] = Parsing(ai_response)]
  /\ UNCHANGED <<users, provider, settings, kbs, embs, blobs, nextId, nextKey, pendDel>>

\* "Attempt 1: Direct parse"
DirectParse(s) ==
  /\ req[s].pc = "attempt1"
  /\ req' = [req EXCEPT ![s] =
       Attempted(req[s], 1, json_loads(req[s].cleaned_response))]
  /\ UNCHANGED <<users, provider, settings, kbs, embs, blobs, nextId, nextKey, pendDel>>

\* "Attempt 2: Fix common issues - unescaped newlines in strings"
FixNewlines(s) ==
  /\ req[s].pc = "attempt2"
  /\ req' = [req EXCEPT ![s] =
       Attempted(req[s], 2,
                 json_loads(newline_repair(req[s].cleaned_response)))]
  /\ UNCHANGED <<users, provider, settings, kbs, embs, blobs, nextId, nextKey, pendDel>>

\* "Attempt 3: Try to extract valid JSON portion"
ExtractPortion(s) ==
  /\ req[s].pc = "attempt3"
  /\ LET portion == json_portion(req[s].cleaned_response)
     IN req' = [req EXCEPT ![s] =
          Attempted(req[s], 3,
                    IF portion.found THEN json_loads(portion.text)
                    ELSE ParseError)]
  /\ UNCHANGED <<users, provider, settings, kbs, embs, blobs, nextId, nextKey, pendDel>>

\* "Attempt 4: Use ast.literal_eval as last resort", and the raise after it
LiteralEval(s) ==
  /\ req[s].pc = "attempt4"
  /\ req' = [req EXCEPT ![s] =
       Attempted(req[s], 4,
                 literal_eval(replace_literals(req[s].cleaned_response)))]
  /\ UNCHANGED <<users, provider, settings, kbs, embs, blobs, nextId, nextKey, pendDel>>

\* the state in which the parser is called
ParserInit ==
  /\ settings = DefaultSettings
  /\ provider = AIService(settings)
  /\ kbs = << >>
  /\ embs = {}
  /\ blobs = << >>
  /\ nextId = 1
  /\ nextKey = 1
  /\ req = [s \in Slots |-> Idle]
  /\ pendDel = [s \in Slots |-> {}]
  /\ users = UserRows

\* ------------------------------------------------------------------ users
UserRole == {"requester", "pm", "developer", "admin", "qa", "approver"}

ALLOWED_DOMAINS == {"x"}

\* email.split('@')[1], or '' for a name without an @
EmailDomain ==
  ("root@x" :> "x") @@ ("Ops@x" :> "x") @@ ("dev@x" :> "x")
    @@ ("new@x" :> "x") @@ ("eve@y" :> "y") @@ ("nobody" :> "")

Emails == DOMAIN EmailDomain

is_allowed_domain(email) == EmailDomain[email] \in ALLOWED_DOMAINS

\* the ids of the rows with this email; email is unique, so at most one
get_user_by_email(email) == {id \in DOMAIN users : users[id].email = email}

\* what a users request leaves in its slot: the caller the token names (0 for
\* a request that carries no token), the row it is about and its status
UserDone(op, caller, id, status) ==
  [op |-> op, pc |-> "done", user |-> caller, id |-> id, status |-> status]

\* POST /users/: no dependency on get_current_user; the body is validated
\* by UserCreate (email domain, role a member of UserRole)
create_user(s) ==
  /\ Free(s)
  /\ \E email \in Emails, role \in UserRole :
       IF ~is_allowed_domain(email)
         THEN /\ users' = users
              /\ req' = [req EXCEPT ![s] = UserDone("create_user", 0, 0, 422)]
       ELSE IF get_user_by_email(email) # {}
         THEN /\ users' = users
              /\ req' = [req EXCEPT ![s] = UserDone("create_user", 0, 0, 400)]
       ELSE LET id == Cardinality(DOMAIN users) + 1
            IN /\ users' = users @@
                    (id :> [email |-> email, role |-> role])
               /\ req' = [req EXCEPT ![s] = UserDone("create_user", 0, id, 200)]
  /\ UNCHANGED <<provider, settings, kbs, embs, blobs, nextId, nextKey, pendDel>>

\* POST /auth/token: an unknown address of an allowed domain is registered
\* with the column's default role; whether the password of a known address
\* verifies is the password library's answer
login_for_access_token(s) ==
  /\ Free(s)
  /\ \E email \in Emails, verified \in BOOLEAN :
       LET found == get_user_by_email(email)
       IN IF ~is_allowed_domain(email)
            THEN /\ users' = users
                 /\ req' = [req EXCEPT ![s] = UserDone("login", 0, 0, 403)]
          ELSE IF found = {}
            THEN LET id == Cardinality(DOMAIN users) + 1
                 IN /\ users' = users @@
                         (id :> [email |-> email, role |-> "requester"])
                    /\ req' = [req EXCEPT ![s] = UserDone("login", 0, id, 200)]
          ELSE LET id == CHOOSE u \in found : TRUE
               IN /\ users' = users
                  /\ req' = [req EXCEPT ![s] =
                       UserDone("login", 0, id, IF verified THEN 200 ELSE 401)]
  /\ UNCHANGED <<provider, settings, kbs, embs, blobs, nextId, nextKey, pendDel>>

\* update_user_role: its status for this caller, target and role
update_user_role_status(current_user, user_id, role) ==
  LET is_env_admin == is_admin_email(current_user.email)
      is_role_admin == current_user.role = "admin"
  IN IF ~is_env_admin /\ ~is_role_admin THEN 403
     ELSE IF user_id \notin DOMAIN users THEN 404
     ELSE IF role \notin UserRole THEN 400
     ELSE IF role = "approver" /\ ~is_env_admin THEN 403
     ELSE IF users[user_id].role = "approver" /\ role # "approver"
               /\ ~is_env_admin THEN 403
     ELSE 200

\* PUT /users/{user_id}/role, by the user the token names
update_user_role(s) ==
  /\ Free(s)
  /\ \E caller \in DOMAIN users,
        user_id \in 1..(Cardinality(Emails) + 1),
        role \in UserRole \cup {"bogus"} :
       LET status == update_user_role_status(users[caller], user_id, role)
       IN /\ users' = IF status = 200
                        THEN [users EXCEPT ![user_id].role = role]
                        ELSE users
          /\ req' = [req EXCEPT ![s] =
               UserDone("update_user_role", caller, user_id, status)]
  /\ UNCHANGED <<provider, settings, kbs, embs, blobs, nextId, nextKey, pendDel>>

\* the registered accounts, an empty knowledge base
UsersInit ==
  /\ settings = DefaultSettings
  /\ provider = AIService(settings)
  /\ kbs = << >>
  /\ blobs = << >>
  /\ embs = {}
  /\ nextId = 1
  /\ nextKey = 1
  /\ req = [s \in Slots |-> Idle]
  /\ pendDel = [s \in Slots |-> {}]
  /\ users = UserRows

\* the response has gone out; the slot takes the next request
Respond(s) ==
  /\ req[s].pc = "done"
  /\ req' = [req EXCEPT ![s] = Idle]
  /\ UNCHANGED <<users, provider, settings, kbs, embs, blobs, nextId, nextKey, pendDel>>

\* ---------------------------------------------------------- specifications
Run(s) ==
  \/ Respond(s)
  \/ UploadFormat(s)
  \/ UploadWrite(s)
  \/ UploadCommit(s)
  \/ ReprocessFormat(s)
  \/ ReprocessRemove(s)
  \/ ReprocessWrite(s)
  \/ ReprocessCommit(s)
  \/ EmbDelete(s)
  \/ EmbStore(s)
  \/ DeleteCommit(s)

Next ==
  \/ Quiet /\ UploadStart(1, UploadInputs)
  \/ Quiet /\ ReprocessStart(1, ReprocessInputs)
  \/ Quiet /\ RegenerateStart(1, Users)
  \/ Quiet /\ update_knowledge_base(1, Users, PlainUpdates)
  \/ Quiet /\ DeleteStart(1, Users)
  \/ Run(1)

Spec == Init /\ [][Next]_vars

\* requests of different slots interleave at their steps; the interleaved
\* requests are the plain ones of the first admin
PlainUploads == {i \in UploadInputs : i.user = User0 /\ i.file = File0}
PlainReprocess == {i \in ReprocessInputs : i.user = User0 /\ i.file = File0}

NextConc ==
  \E s \in Slots :
    \/ UploadStart(s, PlainUploads)
    \/ ReprocessStart(s, PlainReprocess)
    \/ RegenerateStart(s, {User0})
    \/ update_knowledge_base(s, {User0}, PlainUpdates)
    \/ DeleteStart(s, {User0})
    \/ Run(s)
    \/ EmbUnblock(s)

SpecConc == Init /\ [][NextConc]_vars

\* searches, one at a time, of a knowledge base that stays as it is
NextSearch ==
  \/ Quiet /\ InternalSearchStart(1, SearchInputs)
  \/ Quiet /\ SearchStart(1, EndpointInputs)
  \/ InternalSearchQuery(1)
  \/ SearchQuery(1)
  \/ Respond(1)

SpecSearch == SearchInit /\ [][NextSearch]_vars

\* uploads and searches, one request at a time
NextRoundTrip ==
  \/ Quiet /\ UploadStart(1, RoundTripUploads)
  \/ Quiet /\ InternalSearchStart(1, RoundTripQueries)
  \/ Quiet /\ SearchStart(1, {in \in RoundTripQueries : in.min_score = 0})
  \/ UploadFormat(1)
  \/ UploadWrite(1)
  \/ UploadCommit(1)
  \/ EmbDelete(1)
  \/ EmbStore(1)
  \/ InternalSearchQuery(1)
  \/ SearchQuery(1)
  \/ Respond(1)

SpecRoundTrip == Init /\ [][NextRoundTrip]_vars

\* calls of the gateway and restarts, one at a time
NextGateway ==
  \/ Restart(GatewaySettings)
  \/ Quiet /\ GenerateTextStart(1)
  \/ Quiet /\ GenerateEmbeddingStart(1)
  \/ Quiet /\ BatchStart(1)
  \/ GenerateTextReturn(1)
  \/ GenerateEmbeddingReturn(1)
  \/ BatchIssue(1)
  \/ BatchResult(1)
  \/ BatchReturn(1)
  \/ Respond(1)

SpecGateway == Init /\ [][NextGateway]_vars

\* uploads, embedding calls and restarts under another embedding dimension
DimensionSettings ==
  PlainSettings
    \cup {c \in GatewaySettings : c.EMBEDDING_DIMENSIONS # EMBEDDING_DIMENSIONS}

NextDimension ==
  \/ Restart(DimensionSettings)
  \/ Quiet /\ GenerateEmbeddingStart(1)
  \/ Quiet /\ UploadStart(1, PlainUploads)
  \/ GenerateEmbeddingReturn(1)
  \/ UploadFormat(1)
  \/ UploadWrite(1)
  \/ UploadCommit(1)
  \/ EmbDelete(1)
  \/ EmbStore(1)
  \/ Respond(1)

SpecDimension == Init /\ [][NextDimension]_vars

\* a text file longer than the formatter takes: a head of max_content_length
\* characters and a tail
LongText ==
  [i \in 1..(max_content_length + 2) |->
     IF i <= max_content_length THEN "head" ELSE "tail"]

LongFile == [filename |-> "a.txt", data |-> LongText, pdf |-> "ok"]

\* uploads and reprocesses of the long file by the first admin
NextLong ==
  \/ Quiet /\ UploadStart(1, {[user |-> User0, file |-> LongFile,
                               form |-> Form0]})
  \/ Quiet /\ ReprocessStart(1, {[user |-> User0, file |-> LongFile]})
  \/ UploadFormat(1)
  \/ UploadWrite(1)
  \/ UploadCommit(1)
  \/ ReprocessFormat(1)
  \/ ReprocessRemove(1)
  \/ ReprocessWrite(1)
  \/ ReprocessCommit(1)
  \/ EmbDelete(1)
  \/ EmbStore(1)
  \/ Respond(1)

SpecLong == Init /\ [][NextLong]_vars

\* section requests on a legacy entry
NextSection ==
  \/ GetSection(1)
  \/ Respond(1)

SpecSection == SectionInit /\ [][NextSection]_vars

\* metadata updates and domain-filtered searches, one request at a time, of
\* a knowledge base that was uploaded before
UpdateQueries ==
  [query : {<<"q">>}, limit : {1, MaxRows + 1}, min_score : {0},
   domain : {None, "backend", "frontend"}]

NextUpdate ==
  \/ Quiet /\ update_knowledge_base(1, {User0}, Updates)
  \/ Quiet /\ InternalSearchStart(1, UpdateQueries)
  \/ InternalSearchQuery(1)
  \/ Respond(1)

SpecUpdate == SearchInit /\ [][NextUpdate]_vars

\* the users requests, one at a time
NextUsers ==
  \/ create_user(1)
  \/ login_for_access_token(1)
  \/ update_user_role(1)
  \/ Respond(1)

SpecUsers == UsersInit /\ [][NextUsers]_vars

\* the parser called on one answer after another
NextParser ==
  \/ ParseStart(1)
  \/ DirectParse(1)
  \/ FixNewlines(1)
  \/ ExtractPortion(1)
  \/ LiteralEval(1)
  \/ Respond(1)

SpecParser == ParserInit /\ [][NextParser]_vars

\* the score expression applied to a distance
NextScore == \E s \in Slots : ScoreRow(s)

SpecScore == ScoreInit /\ [][NextScore]_vars

\* ------------------------------------------------------------------ claims
Finished(s, op) == req[s].pc = "done" /\ req[s].op = op

\* the body the committed row of an entry references
BodyOf(id) == blobs[kbs[id].markdown_filename].text

\* C1: in upload and reprocess of a .txt or .pdf file, when text generation
\* fails (no provider, or the backend call raises), the body stored for the
\* entry is the extracted text verbatim.  Read right after the metadata
\* commit of the request.
GenFailureStoresExtractedText ==
  \A s \in Slots :
    LET r == req[s]
    IN (/\ r.op \in {"upload", "reprocess"}
        /\ r.pc = "emb_del"
        /\ r.gen \in {"nokey", "raise"}
        /\ r.id \in DOMAIN kbs
        /\ Exists(kbs[r.id].markdown_filename))
       => BodyOf(r.id) = r.content

\* C2 as stated: after every reprocess that answers success, the entry has
\* exactly one embedding record.
ReprocessLeavesExactlyOne ==
  \A s \in Slots :
    (Finished(s, "reprocess") /\ req[s].status = 200)
      => Cardinality(EmbRows(req[s].id)) = 1

\* C2 amended: after a reprocess that answers success, the entry has at most
\* one embedding record; when the embedding step stored one, it has exactly
\* one, and that one is computed from the new body.
ReprocessEmbeddingRecord ==
  \A s \in Slots :
    (Finished(s, "reprocess") /\ req[s].status = 200)
      => /\ Cardinality(EmbRows(req[s].id)) <= 1
         /\ req[s].emb = "ok" =>
              /\ Cardinality(EmbRows(req[s].id)) = 1
              /\ \A e \in EmbRows(req[s].id) :
                   e.embedding = Vector(embed_text(BodyOf(req[s].id)))

ReprocessStoredEmbedding ==
  \E s \in Slots :
    /\ Finished(s, "reprocess")
    /\ req[s].status = 200
    /\ req[s].emb = "ok"
    /\ Cardinality(EmbRows(req[s].id)) = 1

\* C3: with the requests executed one at a time, every entry has at most one
\* embedding record in every reachable state.
AtMostOneEmbedding ==
  \A id \in KbIds : Cardinality(EmbRows(id)) <= 1

\* an embedding was replaced: the entry's one record is not the first one
EmbeddingReplaced ==
  \E e \in embs :
    /\ e.id = 2
    /\ EmbRows(e.kb_id) = {e}
    /\ \E s \in Slots : Finished(s, "regenerate") /\ req[s].emb = "ok"

\* C4: when embedding generation returns null during reprocess or regenerate,
\* the entry has no embedding record once the request has finished.
FailedEmbeddingLeavesNone ==
  \A s \in Slots :
    (/\ req[s].pc = "done"
     /\ req[s].op \in {"reprocess", "regenerate"}
     /\ req[s].emb = "null")
      => EmbRows(req[s].id) = {}

\* C5: in every reachable state the body key of every committed entry
\* references an existing, completely written blob.
BodyKeyReferencesBlob ==
  \A id \in DOMAIN kbs :
    /\ Exists(kbs[id].markdown_filename)
    /\ blobs[kbs[id].markdown_filename].complete

\* C6: with embedding-replacing requests interleaving at the embedding call,
\* no committed state holds two embedding records of one entry.
NoTwoEmbeddingsInterleaved ==
  \A e1 \in embs, e2 \in embs : e1.kb_id = e2.kb_id => e1 = e2

\* C7: after a delete that answers success, the markdown blob and the legacy
\* JSON blob of the entry are gone, its row is gone, and no embedding record
\* references its id.
DeleteRemovesEverything ==
  \A s \in Slots :
    (Finished(s, "delete") /\ req[s].status = 200)
      => /\ ~Exists(req[s].row.markdown_filename)
         /\ req[s].row.json_filename # NoKey
              => ~Exists(req[s].row.json_filename)
         /\ req[s].id \notin DOMAIN kbs
         /\ EmbRows(req[s].id) = {}

LegacyEntryDeleted ==
  \E s \in Slots :
    /\ Finished(s, "delete")
    /\ req[s].status = 200
    /\ req[s].row.json_filename = LegacyJsonKey

\* a file the validation of upload and reprocess must reject: its extension
\* is not allowed, or its extracted text is empty or whitespace-only
BadFile(file) ==
  \/ ExtOf(file.filename) \notin ALLOWED_EXTENSIONS
  \/ /\ extract_content_from_file(file)[1] = 0
     /\ IsBlank(extract_content_from_file(file)[2])

\* C8: an admin's upload of such a file, and an admin's reprocess of an
\* existing entry with such a file, answers 400 and changes neither the
\* rows, nor the blobs, nor the embedding records.
BadFileRejected ==
  [][\A s \in Slots :
       (/\ req[s].pc = "idle"
        /\ req'[s].pc # "idle"
        /\ req'[s].op \in {"upload", "reprocess"}
        /\ BadFile(req'[s].file)
        /\ is_kb_admin(UserOf(req'[s].user))
        /\ req'[s].op = "reprocess" => req'[s].id \in DOMAIN kbs)
         => /\ req'[s].pc = "done"
            /\ req'[s].status = 400
            /\ kbs' = kbs
            /\ blobs' = blobs
            /\ embs' = embs]_vars

BlankReprocessRejected ==
  \E s \in Slots :
    /\ Finished(s, "reprocess")
    /\ req[s].status = 400
    /\ ExtOf(req[s].file.filename) \in ALLOWED_EXTENSIONS
    /\ IsBlank(req[s].file.data)
    /\ req[s].id \in DOMAIN kbs

\* C9: a row is created with version 1 and upload answers version 1; the
\* metadata commit of a reprocess adds exactly 1; no other step changes the
\* version of a row.
VersionCountsReprocesses ==
  [][/\ \A id \in KbIds :
          /\ (id \notin DOMAIN kbs /\ id \in DOMAIN kbs')
               => kbs'[id].version = 1
          /\ (id \in DOMAIN kbs /\ id \in DOMAIN kbs')
               => kbs'[id].version =
                    IF \E s \in Slots : /\ req[s].pc = "rp_commit"
                                        /\ req[s].id = id
                                        /\ req'[s].pc = "emb_del"
                      THEN kbs[id].version + 1
                      ELSE kbs[id].version
     /\ \A s \in Slots :
          (/\ req[s].pc # "done"
           /\ req'[s].pc = "done"
           /\ req'[s].status = 200
           /\ req'[s].op \in {"upload", "reprocess"})
            => req'[s].resp.version =
                 IF req'[s].op = "upload" THEN 1 ELSE req[s].row.version]_vars

ReprocessCounted ==
  \E s \in Slots :
    /\ Finished(s, "reprocess")
    /\ req[s].status = 200
    /\ req[s].id \in DOMAIN kbs
    /\ kbs[req[s].id].version = 2
    /\ req[s].resp.version = 2

FetchedDistances(r) == [i \in 1..Len(r.rows) |-> r.dm[r.rows[i].embedding]]

\* an internal search that ran its statement and returned
InternalReturned(s) ==
  /\ Finished(s, "search_internal")
  /\ req[s].status = 200
  /\ req[s].query_embedding # PyNone

\* C11: the internal search returns, in their order, exactly the fetched rows
\* whose similarity max(0, 1 - distance) is at least min_score, a similarity
\* equal to min_score included; of rows at the distances 0.1, 0.5 and 0.9
\* with min_score 0.6 it returns the row at 0.1 only, with the score 0.9
InternalSearchKeepsAtLeastMinScore ==
  \A s \in Slots : InternalReturned(s) =>
    LET r == req[s]
        d == FetchedDistances(r)
        Passes(i) == (IF d[i] < Unit THEN Unit - d[i] ELSE 0) >= r.min_score
        kept == {i \in 1..Len(r.rows) : Passes(i)}
    IN /\ Len(r.results) = Cardinality(kept)
       /\ \A n \in 1..Len(r.results) :
            \E i \in kept :
              /\ Cardinality({j \in kept : j < i}) = n - 1
              /\ r.results[n].kb_id = r.rows[i].kb_id
       /\ (d = <<Unit \div 10, 5 * (Unit \div 10), 9 * (Unit \div 10)>>
             /\ r.min_score = 6 * (Unit \div 10))
            => /\ Len(r.results) = 1
               /\ r.results[1].kb_id = r.rows[1].kb_id
               /\ r.results[1].similarity_score = 9 * (Unit \div 10)

\* the internal search has answered the example of the three distances
ThreeDistancesSearched ==
  \E s \in Slots :
    /\ InternalReturned(s)
    /\ FetchedDistances(req[s]) =
         <<Unit \div 10, 5 * (Unit \div 10), 9 * (Unit \div 10)>>
    /\ req[s].min_score = 6 * (Unit \div 10)
    /\ Len(req[s].results) = 1

SearchAnswered(s) ==
  /\ req[s].pc = "done"
  /\ req[s].op \in {"search", "search_internal"}
  /\ req[s].status = 200
  /\ req[s].query_embedding # PyNone

\* C13: the internal search and the search endpoint return at most limit
\* matches, closest first (the similarity score never increases along the
\* list), each of them one of the limit nearest rows of the (domain
\* filtered) join: fewer than limit rows are strictly closer to the query
AtMostLimitClosestFirst ==
  \A s \in Slots : SearchAnswered(s) =>
    LET r == req[s]
        J == joined_rows(r.domain)
        Closer(e) == {f \in J : r.dm[f.embedding] < r.dm[e.embedding]}
    IN /\ Len(r.results) <= r.limit
       /\ \A i, j \in 1..Len(r.results) : i < j =>
            /\ r.results[i].similarity_score >= r.results[j].similarity_score
            /\ r.results[i].kb_id # r.results[j].kb_id
       /\ \A i \in 1..Len(r.results) :
            \E e \in J : /\ e.kb_id = r.results[i].kb_id
                         /\ Cardinality(Closer(e)) < r.limit
       /\ r.op = "search" => Len(r.results) = Min(r.limit, Cardinality(J))

\* the endpoint returned the two nearest of three rows, the closer one first
TwoNearestOfThree ==
  \E s \in Slots :
    /\ SearchAnswered(s)
    /\ req[s].op = "search"
    /\ req[s].limit = 2
    /\ Cardinality(joined_rows(req[s].domain)) = 3
    /\ Len(req[s].results) = 2
    /\ req[s].results[1].similarity_score > req[s].results[2].similarity_score

\* the entry is there with its body, and one embedding record of it at least
Embedded(id) ==
  /\ id \in DOMAIN kbs
  /\ Exists(kbs[id].markdown_filename)
  /\ EmbRows(id) # {}

\* a search that the entry can answer: it ran, its domain filter admits the
\* entry, it asks for one match at least and for a score of 0.9 at most
Admits(r, id) ==
  /\ r.limit >= 1
  /\ r.min_score <= 9 * (Unit \div 10)
  /\ Truthy(r.domain) => kbs[id].domain = r.domain

Returned(r, id, score) ==
  \E i \in 1..Len(r.results) :
    /\ r.results[i].kb_id = id
    /\ r.results[i].similarity_score >= score

\* C14: after the ingest of a document of any supported extension, with its
\* embedding stored, a search with the document's own text returns the
\* entry with similarity 0.9 at least
RoundTripAnyDocument ==
  \A s \in Slots : SearchAnswered(s) =>
    \A id \in DOMAIN kbs :
      /\ Embedded(id)
      /\ Admits(req[s], id)
      /\ Cardinality(DOMAIN kbs) = 1
      /\ \E ext \in ALLOWED_EXTENSIONS :
           BodyOf(id) = upload_normalize(ext, req[s].query, provider, "ok")
      => Returned(req[s], id, 9 * (Unit \div 10))

\* C14 as amended: a search with the text of the stored markdown body, which
\* for a .md upload is the document's own text, returns the entry with
\* similarity 1.0 when the limit covers the records at distance 0
RoundTripOnStoredBody ==
  \A s \in Slots : SearchAnswered(s) =>
    \A id \in DOMAIN kbs :
      /\ Embedded(id)
      /\ Admits(req[s], id)
      /\ BodyOf(id) = req[s].query
      /\ Len(BodyOf(id)) <= max_embed_length
      /\ req[s].limit >=
           Cardinality({e \in joined_rows(req[s].domain) :
                          req[s].dm[e.embedding] = 0})
      => Returned(req[s], id, Unit)

\* a markdown upload was searched with its own text and found
MarkdownFoundByOwnText ==
  \E s \in Slots : \E id \in DOMAIN kbs :
    /\ SearchAnswered(s)
    /\ Embedded(id)
    /\ Admits(req[s], id)
    /\ BodyOf(id) = req[s].query
    /\ req[s].query = <<"#", "beta">>
    /\ Returned(req[s], id, Unit)

\* a key that is set and has a character that is not whitespace
Present(key) ==
  /\ key # PyNone
  /\ \E i \in 1..Len(key) : key[i] \notin Whitespace

GatewayNeverRaises ==
  \A s \in Slots :
    /\ Finished(s, "generate_text") =>
         /\ req[s].result # Raised
         /\ provider = "none" =>
              /\ req[s].issued = << >>
              /\ StartsWith(req[s].result, <<"Error:">>)
         /\ req[s].outcomes = <<"raise">> =>
              /\ req[s].result # PyNone
              /\ Len(req[s].result) >= 2
              /\ req[s].result[2] = "Error:"
    /\ Finished(s, "generate_embedding") =>
         /\ req[s].result # Raised
         /\ provider = "none" =>
              /\ req[s].issued = << >>
              /\ req[s].result = PyNone
         /\ req[s].outcomes = <<"raise">> => req[s].result = PyNone

\* the chat backend raised and the caller got the error string
BackendRaiseBecameText ==
  /\ Finished(1, "generate_text")
  /\ req[1].outcomes = <<"raise">>
  /\ req[1].result = <<"OpenAI", "Error:", "boom">>

\* a call of generate_text for which the model has been chosen
ModelChosen(s) ==
  /\ req[s].op = "generate_text"
  /\ req[s].pc \in {"backend", "done"}
  /\ provider # "none"

\* C17: the model of a text call is the one of the level low, medium or
\* high asked for, of the level low for any other complexity; under OpenAI
\* it is the configured model name of the level when that is set and the
\* built-in default of the level otherwise, under GenAI, which has no
\* configurable names, the built-in default of the level
ModelFollowsComplexity ==
  \A s \in Slots : ModelChosen(s) =>
    LET c == req[s].complexity
        level == IF c = "medium" THEN 2 ELSE IF c = "high" THEN 3 ELSE 1
        configured == <<settings.OPENAI_MODEL_LOW, settings.OPENAI_MODEL_MEDIUM,
                        settings.OPENAI_MODEL_HIGH>>
        openai_default == <<"gpt-3.5-turbo", "gpt-4", "gpt-4-turbo">>
        genai_default == <<"gemini-1.5-flash", "gemini-1.5-pro", "gemini-1.5-pro">>
    IN /\ (provider = "openai" /\ configured[level] # "")
            => req[s].model = configured[level]
       /\ (provider = "openai" /\ configured[level] = "")
            => req[s].model = openai_default[level]
       /\ provider = "genai" => req[s].model = genai_default[level]

\* a call with an unknown complexity went out on the configured low model
UnknownComplexityOnConfiguredLow ==
  /\ Finished(1, "generate_text")
  /\ provider = "openai"
  /\ req[1].complexity = "HIGH"
  /\ settings.OPENAI_MODEL_LOW = "gpt-4o"
  /\ req[1].model = "gpt-4o"

\* C18: whatever the configured embedding dimension, every vector that
\* generate_embedding returns and every stored embedding record has that
\* many components
DimensionIsTheConfiguredOne ==
  /\ \A e \in embs : Components(e.embedding) = settings.EMBEDDING_DIMENSIONS
  /\ \A s \in Slots :
       (Finished(s, "generate_embedding") /\ req[s].result # PyNone)
         => Components(req[s].result) = settings.EMBEDDING_DIMENSIONS

\* C19: a batch returns one result per text, the i-th being what
\* generate_embedding gave for the i-th text (its vector, or null when the
\* call failed); the backend calls go out one at a time in the order of the
\* texts, the next one only after the result of the one before, and a null
\* result ends nothing
BatchInOrder ==
  \A s \in Slots : req[s].op = "batch" =>
    LET r == req[s]
        n == Len(r.outcomes)
    IN /\ n <= Len(r.arg)
       /\ Len(r.result) = n
       /\ r.pc = "done" => n = Len(r.arg)
       /\ \A i \in 1..Len(r.result) :
            r.result[i] =
              IF r.outcomes[i] = "ok"
                THEN VectorDim(r.arg[i], settings.EMBEDDING_DIMENSIONS)
                ELSE PyNone
       /\ provider # "none" =>
            /\ Len(r.issued) = IF r.pc = "await" THEN n + 1 ELSE n
            /\ \A i \in 1..Len(r.issued) : r.issued[i] = r.arg[i]
       /\ provider = "none" => r.issued = << >>

\* a batch of two texts came back with a null first and a vector second
BatchWentOnAfterNull ==
  /\ Finished(1, "batch")
  /\ req[1].arg = <<<<"a">>, <<"b">>>>
  /\ req[1].result[1] = PyNone
  /\ req[1].result[2] = VectorDim(<<"b">>, settings.EMBEDDING_DIMENSIONS)

\* a fenced JSON object, with or without the language tag
FencedJson(text, c) ==
  \/ text = <<Fence, "json", "\n">> \o c \o <<"\n", Fence>>
  \/ text = <<Fence, "\n">> \o c \o <<"\n", Fence>>

\* C20: the parser runs its attempts in the order 1, 2, 3, 4 and stops at
\* the first that succeeds: it returns what that attempt parsed, and it
\* fails with a server error only after all four; a fenced JSON object is
\* returned by attempt 1, a JSON object with prose around it by attempt 3,
\* and a text with nothing of JSON in it fails
ParserStopsAtFirstSuccess ==
  \A s \in Slots : req[s].op = "parse" =>
    LET r == req[s]
    IN /\ \A i \in 1..Len(r.tried) : r.tried[i] = i
       /\ (r.pc = "done" /\ r.status = 200) => r.structure # ParseError
       /\ (r.pc = "done" /\ r.status # 200) =>
            r.status = 500 /\ r.tried = <<1, 2, 3, 4>>
       /\ r.pc = "done" =>
            \A c \in JsonObjects :
              /\ FencedJson(r.ai_response, c) =>
                   /\ r.status = 200
                   /\ r.tried = <<1>>
                   /\ r.structure = <<"dict">> \o Strip(SubSeq(c, 2, Len(c) - 1))
              /\ r.ai_response = <<"noise">> \o c \o <<"noise">> =>
                   /\ r.status = 200
                   /\ r.tried = <<1, 2, 3>>
                   /\ r.structure = <<"dict">> \o Strip(SubSeq(c, 2, Len(c) - 1))
       /\ (r.pc = "done"
             /\ \A i \in 1..Len(r.ai_response) :
                  r.ai_response[i] \in {"noise", " ", "\n"})
            => r.status = 500

\* a part of a message
Contains(message, part) == \E i \in 1..Len(message) : message[i] = part

\* a parse that failed in all four attempts
ParseFailed(s) ==
  /\ Finished(s, "parse")
  /\ req[s].status = 500

\* C21: when all four attempts fail, the server error carries the parse
\* error of the first, direct attempt and the cleaned input cut to the
\* preview length, and never the full input when that is longer
FailureCarriesErrorAndPreview ==
  \A s \in Slots : ParseFailed(s) =>
    LET r == req[s]
    IN /\ r.tried = <<1, 2, 3, 4>>
       /\ Contains(r.detail, DirectParseError)
       /\ Contains(r.detail, Prefix(r.cleaned_response, preview_limit))
       /\ Len(r.cleaned_response) > preview_limit
            => ~Contains(r.detail, r.cleaned_response)

\* C21 as amended: when all four attempts fail, the server error carries
\* the parse error of the first, direct attempt and no part of the input;
\* the cleaned input cut to the preview length goes to the log, next to
\* the same error, and the log never holds an input longer than that
FailureCarriesErrorLogsPreview ==
  \A s \in Slots : ParseFailed(s) =>
    LET r == req[s]
    IN /\ r.tried = <<1, 2, 3, 4>>
       /\ r.parse_error = DirectParseError
       /\ Contains(r.detail, r.parse_error)
       /\ \A n \in 1..Len(r.cleaned_response) :
            ~Contains(r.detail, Prefix(r.cleaned_response, n))
       /\ Contains(r.log, r.parse_error)
       /\ Contains(r.log, Prefix(r.cleaned_response, preview_limit))
       /\ \A i \in 1..Len(r.log) : Len(r.log[i]) <= preview_limit

\* an answer longer than the preview failed in all four attempts
LongAnswerFailed ==
  \E s \in Slots :
    /\ ParseFailed(s)
    /\ Len(req[s].cleaned_response) > preview_limit
    /\ Len(req[s].log[2]) = preview_limit

\* an upload or a reprocess of a markdown file, under way
MarkdownIngest(s) ==
  /\ req[s].op \in {"upload", "reprocess"}
  /\ req[s].pc \notin {"idle", "done"}
  /\ ExtOf(req[s].file.filename) = ".md"

\* C22: an upload or a reprocess of a .md file never calls the text
\* generator, and the body it stores, read right after the metadata
\* commit, is the decoded file content unchanged
MarkdownPassesThrough ==
  \A s \in Slots : MarkdownIngest(s) =>
    LET r == req[s]
    IN /\ r.gen = "na"
       /\ r.pc \notin {"up_format", "rp_format"}
       /\ r.md = r.file.data
       /\ r.pc = "emb_del" =>
            /\ r.id \in DOMAIN kbs
            /\ Exists(kbs[r.id].markdown_filename)
            /\ BodyOf(r.id) = r.file.data

\* a markdown file was reprocessed into an entry and stored as it came
MarkdownStoredVerbatim ==
  \E s \in Slots :
    /\ MarkdownIngest(s)
    /\ req[s].op = "reprocess"
    /\ req[s].pc = "emb_del"
    /\ BodyOf(req[s].id) = <<"#", "beta">>

\* an upload or a reprocess of a text longer than max_content_length that
\* goes through the formatter, right after its metadata commit
LongIngested(s) ==
  /\ req[s].op \in {"upload", "reprocess"}
  /\ req[s].pc = "emb_del"
  /\ ExtOf(req[s].file.filename) \in {".txt", ".pdf"}
  /\ Len(req[s].content) > max_content_length
  /\ req[s].id \in DOMAIN kbs
  /\ Exists(kbs[req[s].id].markdown_filename)

Mutations == {"upload", "update", "reprocess", "delete", "regenerate"}

\* the user has the admin role, or an email of the allowlist in any case
AdminUser(uid) ==
  \/ UserOf(uid).role = "admin"
  \/ UserOf(uid).email \in {"ops@x", "Ops@x"}

\* C24: upload, metadata update, reprocess, delete and regenerate of a user
\* who has neither the admin role nor an allowlisted email end at once
\* with 403 and leave the rows, the blobs and the embedding records as
\* they were; no such request is ever under way or answered otherwise
AdminOnlyMutations ==
  [][\A s \in Slots :
       (/\ req'[s].op \in Mutations
        /\ req'[s].pc # "idle"
        /\ ~AdminUser(req'[s].user))
         => /\ req[s].pc = "idle"
            /\ req'[s].pc = "done"
            /\ req'[s].status = 403
            /\ kbs' = kbs
            /\ blobs' = blobs
            /\ embs' = embs]_vars

\* a developer off the allowlist asked for the delete of an entry and got 403
DeveloperDeleteRefused ==
  \E s \in Slots :
    /\ Finished(s, "delete")
    /\ req[s].status = 403
    /\ UserOf(req[s].user).role = "developer"
    /\ req[s].id \in DOMAIN kbs

\* C25: an entry that an upload created or a reprocess rewrote carries no
\* reference to a legacy structure, and a section request on it answers
\* 400 for every address; a section request answers 200 only on an entry
\* that carries its legacy structure, which no reprocess has touched
SectionsOnLegacyEntriesOnly ==
  /\ \A s \in Slots :
       (/\ req[s].pc = "done"
        /\ req[s].op \in {"upload", "reprocess"}
        /\ req[s].status = 200
        /\ req[s].id \in DOMAIN kbs)
         => /\ kbs[req[s].id].json_filename = NoKey
            /\ \A address \in DOMAIN Dotted :
                 get_section(req[s].id, address).status = 400
  /\ \A id \in DOMAIN kbs, address \in DOMAIN Dotted :
       get_section(id, address).status = 200
         => /\ kbs[id].json_filename = LegacyJsonKey
            /\ kbs[id].markdown_filename = LegacyKey
            /\ kbs[id].version = 1

\* the legacy entry was reprocessed and answers its section requests by 400
LegacyEntryLostItsSections ==
  \E s \in Slots :
    /\ Finished(s, "reprocess")
    /\ req[s].status = 200
    /\ req[s].id = 1
    /\ kbs[1].version = 2
    /\ ~Exists(LegacyJsonKey)
    /\ get_section(1, "1").status = 400

RECURSIVE Placed(_, _)
\* every section of a tree, with the list it stands in and the positions
\* that lead to it from the root list
Placed(sections, path) ==
  UNION {{[path |-> Append(path, i), node |-> sections[i],
           siblings |-> sections]}
           \cup Placed(Get(sections[i], "subsections", << >>),
                       Append(path, i)) :
         i \in 1..Len(sections)}

\* a section request that came to the lookup
LookedUp(s) ==
  /\ Finished(s, "get_section")
  /\ req[s].status \in {200, 404}
  /\ req[s].id \in DOMAIN kbs
  /\ kbs[req[s].id].json_filename # NoKey
  /\ Exists(kbs[req[s].id].json_filename)

DomainInEnumeration ==
  \A id \in DOMAIN kbs : kbs[id].domain \in VALID_DOMAINS

\* C28: the approver role changes hands only through a caller whose email is
\* in ADMIN_EMAILS: whenever an address gains or loses the approver role, the
\* request that did it was made by such a caller
HoldsApprover(rows, email) ==
  \E id \in DOMAIN rows : rows[id].email = email /\ rows[id].role = "approver"

ByEnvAdmin(s) ==
  /\ req[s].pc = "idle"
  /\ req'[s].pc = "done"
  /\ req'[s].user \in DOMAIN users
  /\ is_admin_email(users[req'[s].user].email)

ApproverOnlyByEnvAdmin ==
  [][\A email \in Emails :
       HoldsApprover(users, email) # HoldsApprover(users', email)
         => \E s \in Slots : ByEnvAdmin(s)]_vars

\* C29: a metadata update changes only the name, the domain and the
\* description of its entry, each only when the request supplies it; the
\* version, the body key, the blobs and the embedding records stay as they
\* were; and a search filtered by a domain fetches exactly from the entries
\* whose domain is that one now
UpdateAnswered(s) ==
  /\ req[s].pc = "idle"
  /\ req'[s].pc = "done"
  /\ req'[s].op = "update"

Supplied(old, new, value) == new = IF value = None THEN old ELSE value

UpdateFrame(s) ==
  LET id == req'[s].id
  IN /\ embs' = embs
     /\ blobs' = blobs
     /\ DOMAIN kbs' = DOMAIN kbs
     /\ \A k \in DOMAIN kbs \ {id} : kbs'[k] = kbs[k]
     /\ req'[s].status # 200 => kbs' = kbs
     /\ req'[s].status = 200 =>
          /\ kbs'[id].version = kbs[id].version
          /\ kbs'[id].markdown_filename = kbs[id].markdown_filename
          /\ kbs'[id].json_filename = kbs[id].json_filename
          /\ \E update \in Updates :
               /\ Supplied(kbs[id].name, kbs'[id].name, update.name)
               /\ Supplied(kbs[id].domain, kbs'[id].domain, update.domain)
               /\ Supplied(kbs[id].description, kbs'[id].description,
                           IF update.description = None
                             THEN None ELSE <<update.description>>)

FilteredSearchFetched(s) ==
  /\ req[s].pc = "sql"
  /\ req'[s].pc = "done"
  /\ req'[s].status = 200
  /\ req'[s].domain # None

FetchedByCurrentDomain(s) ==
  LET r == req'[s]
      fetched == {r.rows[i] : i \in 1..Len(r.rows)}
      current == {e \in embs : kbs[e.kb_id].domain = r.domain}
  IN /\ fetched \subseteq current
     /\ Cardinality(fetched) = Min(r.limit, Cardinality(current))

UpdateChangesMetadataOnly ==
  [][\A s \in Slots :
       /\ UpdateAnswered(s) => UpdateFrame(s)
       /\ FilteredSearchFetched(s) => FetchedByCurrentDomain(s)]_vars

\* an entry uploaded under backend, moved to frontend by an update, was
\* fetched by a search filtered by frontend
MovedEntryFoundByNewDomain ==
  \E s \in Slots :
    /\ req[s].pc = "done"
    /\ req[s].op = "search_internal"
    /\ req[s].status = 200
    /\ req[s].domain = "frontend"
    /\ \E i \in 1..Len(req[s].rows) :
         LET id == req[s].rows[i].kb_id
         IN /\ blobs[kbs[id].markdown_filename].text = <<"#", "near">>
            /\ kbs[id].domain = "frontend"
            /\ kbs[id].description = <<"d2">>

\* C30: between requests every blob of the knowledge directory is referenced
\* by exactly one entry, as its body or as its legacy structure file, and no
\* two entries share a body key
Referrers(key) ==
  {id \in DOMAIN kbs :
     key \in {kbs[id].markdown_filename, kbs[id].json_filename}}

EveryBlobReferencedOnce ==
  Quiet =>
    /\ \A key \in DOMAIN blobs : Cardinality(Referrers(key)) = 1
    /\ \A a, b \in DOMAIN kbs :
         kbs[a].markdown_filename = kbs[b].markdown_filename => a = b

====